---- MODULE Spec2Model ----
(***************************************************************************)
(* Blue-collar-buddy backend: the multi-source parts search.               *)
(*                                                                         *)
(* Spec      one searchSingleQuery call (ProductScraper) fanning out to    *)
(*           mcmaster, mscdirect and grainger, while other requests of the *)
(*           same process hold and release sessions of the same            *)
(*           ProductScraper.  One action is one continuation of the        *)
(*           JavaScript event loop: the code between two awaits runs       *)
(*           atomically.                                                   *)
(* SmartSpec one GET /api/search request: the validation of the query and  *)
(*           the LLMSearchEnhancer.smartSearch call, whose searchFunction  *)
(*           resolves with any number of listings.                         *)
(*                                                                         *)
(* A result page is a document: the product containers its selectors      *)
(* match, each with the texts its field selectors match.                   *)
(*                                                                         *)
(* Strings whose characters matter are sequences of one-character strings. *)
(* Confidences are in tenths (0.7 is 7).                                   *)
(***************************************************************************)
EXTENDS Integers, Sequences, FiniteSets, TLC

VARIABLES
  activeSessions,   \* ProductScraper.activeSessions
  browser,          \* ProductScraper.browser: "null" or "browser"
  browsers,         \* browser processes puppeteer.launch started for ProductScraper
  gbrowser,         \* GraingerPriceScraper.browser
  otherSessions,    \* sessions held by scrapeWithPuppeteer invocations of other requests
  pc,               \* per task: the await it is suspended at
  page,             \* per task: the local `page`: "none", "open", "closed" (close invoked)
  out,              \* per task: the value it returns (pending while closing)
  err,              \* per task: the error it raised or logged, "none" if none
  staticRes,        \* per source: outcome of the static fetch
  html,             \* per source: the document the static fetch received, "none" if none
  dom,              \* per source: the document the rendered page loaded, "none" if none
  gotos,            \* per source: page.goto calls of the rendered fetch
  rendered,         \* per source: the rendered fetch was invoked
  retries,          \* GraingerPriceScraper.getPricesWithPuppeteer: local `retries`
  search,           \* searchSingleQuery: "idle", "running", "returned"
  maxResults,       \* searchSingleQuery: argument maxResults
  queryOk,          \* searchSingleQuery: the query has >= 2 characters after trim
  combinedResults,  \* searchSingleQuery: local combinedResults
  searchReturn,     \* searchSingleQuery: the returned list
  request,          \* GET /api/search: req.query.q
  smart,            \* smartSearch: position; "rejected" when the route answered 400
  originalQuery,    \* smartSearch: argument originalQuery
  enhancement,      \* smartSearch: local enhancement
  calls,            \* smartSearch: the searchFunction calls made so far (failed:
                    \* every source of the call failed; graingerFetch:
                    \* getLivePrices issued its static fetch)
  inflight,         \* smartSearch: searchFunction calls started and not completed
  smartReturn,      \* smartSearch: the returned object
  apiKey,           \* LLMSearchEnhancer.apiKey is set
  llmCalls,         \* requests sent to the LLM endpoint
  llmOutcome        \* how the LLM request ended

fetchVars == <<activeSessions, browser, browsers, gbrowser, otherSessions, pc, page,
               out, err, staticRes, html, dom, gotos, rendered, retries, search,
               maxResults, queryOk, combinedResults, searchReturn>>
smartVars == <<request, smart, originalQuery, enhancement, calls, inflight,
               smartReturn, apiKey, llmCalls, llmOutcome>>
vars == <<fetchVars, smartVars>>

(***************************************************************************)
(* Bounds                                                                  *)
(***************************************************************************)
\* scrapeWithPuppeteer invocations of other requests that may run at a time
MaxOthers == 2
\* listings one searchFunction call of smartSearch may return
MaxHits == 2

(***************************************************************************)
(* Configuration                                                           *)
(***************************************************************************)
maxConcurrentSessions == 3

\* Object.keys(SUPPLIERS)
supplierNames == <<"mcmaster", "mscdirect">>
\* [...supplierNames, 'grainger']
allSuppliers == supplierNames \o <<"grainger">>

\* The values of maxResults the search is called with
MaxResultsChoices == {2, 10}

\* the sources scraped by ProductScraper itself
Products == {supplierNames[i] : i \in 1..Len(supplierNames)}
Sources == {allSuppliers[i] : i \in 1..Len(allSuppliers)}

(***************************************************************************)
(* Listings                                                                *)
(***************************************************************************)
\* JavaScript's String(undefined), what `${item.name}` gives for a missing field
Undefined == <<"u", "n", "d", "e", "f", "i", "n", "e", "d">>

UpperCase ==
  <<"A", "B", "C", "D", "E", "F", "G", "H", "I", "J", "K", "L", "M", "N", "O", "P",
    "Q", "R", "S", "T", "U", "V", "W", "X", "Y", "Z">>
LowerCase ==
  <<"a", "b", "c", "d", "e", "f", "g", "h", "i", "j", "k", "l", "m", "n", "o", "p",
    "q", "r", "s", "t", "u", "v", "w", "x", "y", "z">>

\* String.prototype.toLowerCase, one character
LowerOf ==
  [c \in {UpperCase[i] : i \in 1..Len(UpperCase)} |->
     LowerCase[CHOOSE i \in 1..Len(UpperCase) : UpperCase[i] = c]]

LowerChar(c) == IF c \in DOMAIN LowerOf THEN LowerOf[c] ELSE c

toLowerCase(str) == [i \in 1..Len(str) |-> LowerChar(str[i])]

\* the regular expression class \s
IsSpace(c) == c \in {" ", "\t", "\n"}

\* str.replace(/\s+/g, '')
RECURSIVE StripSpaces(_)
StripSpaces(str) ==
  IF str = <<>> THEN <<>>
  ELSE IF IsSpace(Head(str)) THEN StripSpaces(Tail(str))
  ELSE <<Head(str)>> \o StripSpaces(Tail(str))

\* A string literal as the sequence of its characters
Text(str) == [i \in 1..Len(str) |-> SubSeq(str, i, i)]

\* String.prototype.trim
RECURSIVE TrimStart(_)
TrimStart(str) ==
  IF str # <<>> /\ IsSpace(Head(str)) THEN TrimStart(Tail(str)) ELSE str

RECURSIVE TrimEnd(_)
TrimEnd(str) ==
  IF str # <<>> /\ IsSpace(str[Len(str)])
    THEN TrimEnd(SubSeq(str, 1, Len(str) - 1))
    ELSE str

trim(str) == TrimEnd(TrimStart(str))

\* String.prototype.includes
includes(str, sub) ==
  \E i \in 1..(Len(str) - Len(sub) + 1) : SubSeq(str, i, i + Len(sub) - 1) = sub

\* str.split(' ').length
SplitLength(str) == Cardinality({i \in 1..Len(str) : str[i] = " "}) + 1

\* item.f of a JavaScript object: undefined when the object has no such property
Field(item, f) == IF f \in DOMAIN item THEN item[f] ELSE Undefined

\* `${item.partNumber}-${item.name}`.toLowerCase().replace(/\s+/g, '')
DedupKey(item) ==
  StripSpaces(toLowerCase(Field(item, "partNumber") \o <<"-">> \o Field(item, "name")))

RECURSIVE FilterUnseen(_, _)
FilterUnseen(results, seen) ==
  IF results = <<>> THEN <<>>
  ELSE LET key == DedupKey(Head(results)) IN
    IF key \in seen THEN FilterUnseen(Tail(results), seen)
    ELSE <<Head(results)>> \o FilterUnseen(Tail(results), seen \cup {key})

\* A filter that keeps the last listing of every key instead of the first
Reverse(list) == [i \in 1..Len(list) |-> list[Len(list) + 1 - i]]
removeDuplicatesKeepLast(results) == Reverse(FilterUnseen(Reverse(results), {}))

\* A filter that walks the listings from the last to the first
removeDuplicatesBackwards(results) == FilterUnseen(Reverse(results), {})

\* results.filter(item => { ...; if (seen.has(key)) return false; seen.add(key); return true; })
removeDuplicates(results) == FilterUnseen(results, {})

\* Array.prototype.slice(0, n) for n >= 0
Slice(list, n) == SubSeq(list, 1, IF n < Len(list) THEN n ELSE Len(list))

\* the first index at which the sequence of truth values holds TRUE, 0 if none
FirstIndex(flags) ==
  IF \E i \in 1..Len(flags) : flags[i]
    THEN CHOOSE i \in 1..Len(flags) : flags[i] /\ \A j \in 1..(i - 1) : ~flags[j]
    ELSE 0

\* Math.ceil(a / b) for positive integers
CeilDiv(a, b) == (a + b - 1) \div b

(***************************************************************************)
(* Regular expressions, as String.prototype.match and replace run them:    *)
(* leftmost match, greedy quantifiers, backtracking in preference order.   *)
(* A pattern is a sequence of items; a position is the index of the next   *)
(* character to read.                                                      *)
(***************************************************************************)
Digit == {"0", "1", "2", "3", "4", "5", "6", "7", "8", "9"}
Lower == {LowerCase[i] : i \in 1..Len(LowerCase)}
Upper == {UpperCase[i] : i \in 1..Len(UpperCase)}
\* the class \w
WordChar == Digit \cup Lower \cup Upper \cup {"_"}
\* the class \s
Space == {" ", "\t", "\n"}
\* the characters of the texts considered
Chars == WordChar \cup Space \cup {"-", "$", ",", ".", ":", "'", "\"", "{", "}"}

\* a character of class cs repeated min to max times; max 0 is no upper limit
Set(cs, min, max) == [k |-> "set", cs |-> cs, min |-> min, max |-> max]
\* (?:items) repeated min to max times; max 0 is no upper limit
Grp(items, min, max) == [k |-> "grp", items |-> items, min |-> min, max |-> max]
\* a|b|c, each alternative a sequence of items
Alt(alts) == [k |-> "alt", alts |-> alts]
\* the assertions \b and ^
Bnd == [k |-> "bnd"]
Bol == [k |-> "bol"]
\* a literal text
Lit(text) == [i \in 1..Len(text) |-> Set({text[i]}, 1, 1)]

\* the number of consecutive characters of class cs from position pos
RECURSIVE RunLen(_, _, _)
RunLen(cs, str, pos) ==
  IF pos <= Len(str) /\ str[pos] \in cs THEN 1 + RunLen(cs, str, pos + 1) ELSE 0

\* \b holds between a word character and a non-word character or an end
IsBoundary(str, pos) ==
  LET before == pos > 1 /\ str[pos - 1] \in WordChar
      after == pos <= Len(str) /\ str[pos] \in WordChar
  IN before # after

RECURSIVE ItemEnds(_, _, _)
RECURSIVE SeqEnds(_, _, _)
RECURSIVE SeqEndsFrom(_, _, _, _)
RECURSIVE AltEnds(_, _, _, _)
RECURSIVE RepEnds(_, _, _, _)
RECURSIVE RepEndsFrom(_, _, _, _, _)

\* The positions at which a match of item from pos can end, most preferred first
ItemEnds(item, str, pos) ==
  CASE item.k = "set" ->
         LET r == RunLen(item.cs, str, pos)
             hi == IF item.max = 0 \/ r < item.max THEN r ELSE item.max
         IN IF hi < item.min THEN <<>>
            ELSE [i \in 1..(hi - item.min + 1) |-> pos + hi - i + 1]
    [] item.k = "grp" -> RepEnds(item, str, pos, 0)
    [] item.k = "alt" -> AltEnds(item.alts, str, pos, 1)
    [] item.k = "bnd" -> IF IsBoundary(str, pos) THEN <<pos>> ELSE <<>>
    [] OTHER -> IF pos = 1 THEN <<pos>> ELSE <<>>

\* The positions at which a match of the items in a row from pos can end
SeqEnds(items, str, pos) ==
  IF items = <<>> THEN <<pos>>
  ELSE SeqEndsFrom(Tail(items), str, ItemEnds(Head(items), str, pos), 1)

SeqEndsFrom(items, str, ends, i) ==
  IF i > Len(ends) THEN <<>>
  ELSE SeqEnds(items, str, ends[i]) \o SeqEndsFrom(items, str, ends, i + 1)

AltEnds(alts, str, pos, i) ==
  IF i > Len(alts) THEN <<>>
  ELSE SeqEnds(alts[i], str, pos) \o AltEnds(alts, str, pos, i + 1)

\* After r repetitions of the group: one more repetition is preferred to stopping
RepEnds(item, str, pos, r) ==
  (IF item.max = 0 \/ r < item.max
     THEN RepEndsFrom(item, str, SeqEnds(item.items, str, pos), r + 1, 1)
     ELSE <<>>)
  \o (IF r >= item.min THEN <<pos>> ELSE <<>>)

RepEndsFrom(item, str, ends, r, i) ==
  IF i > Len(ends) THEN <<>>
  ELSE RepEnds(item, str, ends[i], r) \o RepEndsFrom(item, str, ends, r, i + 1)

\* The ways the items match in a row from pos, most preferred first; a way is
\* the end position of each item.
RECURSIVE Paths(_, _, _)
RECURSIVE PathsFrom(_, _, _, _)
Paths(items, str, pos) ==
  IF items = <<>> THEN << <<>> >>
  ELSE PathsFrom(Tail(items), str, ItemEnds(Head(items), str, pos), 1)

PathsFrom(items, str, ends, i) ==
  IF i > Len(ends) THEN <<>>
  ELSE LET rest == Paths(items, str, ends[i])
       IN [j \in 1..Len(rest) |-> <<ends[i]>> \o rest[j]]
          \o PathsFrom(items, str, ends, i + 1)

\* the start positions at which the pattern matches
MatchStarts(regex, str) == {s \in 1..(Len(str) + 1) : Paths(regex, str, s) # <<>>}

\* str.match(regex) without the g flag: null, or the leftmost match
Match(regex, str) ==
  LET starts == MatchStarts(regex, str) IN
    IF starts = {} THEN [found |-> FALSE]
    ELSE LET s == CHOOSE s \in starts : \A o \in starts : s <= o
         IN [found |-> TRUE, start |-> s, ends |-> Paths(regex, str, s)[1]]

\* the text matched by the pattern's k-th item
Capture(m, str, k) ==
  SubSeq(str, IF k = 1 THEN m.start ELSE m.ends[k - 1], m.ends[k] - 1)

(***************************************************************************)
(* Selector configuration and result pages                                 *)
(***************************************************************************)
\* SUPPLIERS: the selector candidates of the product suppliers.  Neither entry
\* has availability selectors.
SUPPLIERS ==
  [mcmaster |->
     [selectors |->
        [productContainer |->
           <<".ProductTableRow", "tr[data-testid='product-row']", ".product-row">>,
         partNumber  |-> <<".PartNumber", ".part-number", "td:first-child">>,
         productName |-> <<".ProductDescription", ".description", "td:nth-child(2)">>,
         price       |-> <<".Price", ".price", ".cost">>]],
   mscdirect |->
     [selectors |->
        [productContainer |-> <<".product-tile", ".search-result">>,
         partNumber  |-> <<".product-number", ".item-number">>,
         productName |-> <<".product-title", ".product-name">>,
         price       |-> <<".price", ".product-price">>]]]

\* GraingerPriceScraper.selectors (quantityPricing is used by no search)
selectors ==
  [productContainer |->
     <<"[data-automation-id='product-tile']", "article[data-testid='product-tile']",
       ".ProductTile", ".search-result-item", ".product-tile">>,
   price |->
     <<"[data-automation-id='product-price'] .price-value",
       "[data-automation-id='product-price']", ".price-current", ".price-value",
       ".product-price .price", ".price-display", "[data-testid='price']", ".price">>,
   partNumber |->
     <<"[data-automation-id='product-item-number']", ".item-number",
       ".product-number", "[data-testid='item-number']">>,
   productName |->
     <<"[data-automation-id='product-title'] a", "[data-automation-id='product-title']",
       "h3[data-testid='product-title']", ".product-title a", ".product-title">>,
   availability |->
     <<"[data-automation-id='product-availability']", ".availability-status",
       ".stock-status", ".availability">>]

\* the selector of a container's product link
ProductLink == "a[href*='/product/']"

\* config.selectors.availability || []
AvailabilitySelectors(config) ==
  IF "availability" \in DOMAIN config.selectors THEN config.selectors.availability
  ELSE <<>>

\* A container is the function from the selectors that match an element inside
\* it to the textContent of the first such element (to its href for the product
\* link).  A document is the function from the selectors that match product
\* containers to these containers, in document order.
NoMatch == [s \in {} |-> <<>>]

\* The containers of a supplier's result page when it shows products
PageContainers(supplier) ==
  CASE supplier = "mcmaster" ->
         << (".PartNumber" :> Text(" A1 ")) @@ (".ProductDescription" :> Text("Bb"))
              @@ (".Price" :> Text("$12.50")),
            (".PartNumber" :> Text("A1")) @@ (".ProductDescription" :> Text("B b"))
              @@ (".Price" :> Text("$12.75")),
            (".PartNumber" :> Text("  ")) @@ (".part-number" :> Text("C2"))
              @@ ("td:first-child" :> Text("ZZ")) @@ (".description" :> Text("Dd")),
            (".PartNumber" :> Text("X9")) @@ (".cost" :> Text("$1.00")) >>
    [] supplier = "mscdirect" ->
         << (".product-number" :> Text("a1")) @@ (".product-title" :> Text("B b"))
              @@ (".price" :> Text("9.99 USD")),
            (".item-number" :> Text("A")) @@ (".product-name" :> Text("1Bb"))
              @@ (".product-price" :> Text("$3")),
            (".product-number" :> Text("M3")) @@ (".product-title" :> Text("Nn"))
              @@ (".price" :> <<>>) @@ (".product-price" :> Text("Pack of 12")) >>
    [] OTHER ->
         << ("[data-automation-id='product-item-number']" :> Text("A1"))
              @@ ("[data-automation-id='product-title']" :> Text("Bb"))
              @@ ("[data-automation-id='product-price']" :> Text("$0.00"))
              @@ (".availability" :> Text("In stock"))
              @@ (ProductLink :> Text("/product/A1")),
            (".item-number" :> Text("E3456")) @@ (".product-title" :> Text("Ff"))
              @@ (".price-current" :> Text("\n")) @@ (".price" :> Text("Price: $1,234.56")),
            (".item-number" :> Text("G7")) @@ (".product-title a" :> Text("Hh"))
              @@ (".price" :> Text("Call for price"))
              @@ (".stock-status" :> Text("Temporarily BackOrdered"))
              @@ (ProductLink :> Text("/product/G7")),
            (".item-number" :> Text("K5")) @@ (".product-title" :> Text("Ll"))
              @@ (ProductLink :> Text("/product/K5")) >>

\* one more container, matched by a later container selector only
OtherContainer(supplier) ==
  CASE supplier = "mcmaster" ->
         (".part-number" :> Text("Q1")) @@ (".description" :> Text("Rr"))
           @@ (".price" :> Text("$2.00"))
    [] supplier = "mscdirect" ->
         (".item-number" :> Text("Q1")) @@ (".product-name" :> Text("Rr"))
           @@ (".price" :> Text("$2.00"))
    [] OTHER ->
         (".item-number" :> Text("Q1")) @@ (".product-title" :> Text("Rr"))
           @@ (".price" :> Text("$2.00"))

\* the container selector candidates of a source
ContainerSelectors(supplier) ==
  IF supplier \in DOMAIN SUPPLIERS THEN SUPPLIERS[supplier].selectors.productContainer
  ELSE selectors.productContainer

\* The documents a fetch of the supplier's search URL can receive: one without
\* product containers, one whose containers match the first container selector
\* (and a different container the last one), one whose containers match the
\* second container selector only.
DocumentNames == {"empty", "first", "later"}

Documents(supplier) ==
  LET candidates == ContainerSelectors(supplier) IN
    [empty |-> NoMatch,
     first |-> (candidates[1] :> PageContainers(supplier))
                 @@ (candidates[Len(candidates)] :> <<OtherContainer(supplier)>>),
     later |-> (candidates[2] :> PageContainers(supplier))]

\* $(selector) and document.querySelectorAll(selector)
querySelectorAll(document, selector) ==
  IF selector \in DOMAIN document THEN document[selector] ELSE <<>>

\* $container.find(selector).first().text(), and the textContent of
\* container.querySelector(selector): the empty string when nothing matches
textOf(container, selector) ==
  IF selector \in DOMAIN container THEN container[selector] ELSE <<>>

\* An extraction that returns the text of the first candidate that matches
\* an element, whatever its text
RECURSIVE getTextOfFirstMatch(_, _)
getTextOfFirstMatch(container, candidates) ==
  IF candidates = <<>> THEN <<>>
  ELSE IF Head(candidates) \in DOMAIN container
         THEN trim(textOf(container, Head(candidates)))
  ELSE getTextOfFirstMatch(container, Tail(candidates))

\* getTextBySelectors: for (const selector of selectors) { const text = ...trim();
\* if (text) return text; } return ''; the same loop runs in parseHTML, in both
\* page.evaluate callbacks and in parseHTMLForPrices
RECURSIVE getTextBySelectors(_, _)
getTextBySelectors(container, candidates) ==
  IF candidates = <<>> THEN <<>>
  ELSE LET text == trim(textOf(container, Head(candidates))) IN
    IF text # <<>> THEN text
    ELSE getTextBySelectors(container, Tail(candidates))

\* the record the product scraper reads from a container
ProductRecord(container, config) ==
  [partNumber   |-> getTextBySelectors(container, config.selectors.partNumber),
   productName  |-> getTextBySelectors(container, config.selectors.productName),
   priceText    |-> getTextBySelectors(container, config.selectors.price),
   availability |-> getTextBySelectors(container, AvailabilitySelectors(config))]

\* if (partNumber && productName) in parseHTML and in page.evaluate
Promoted(item) == item.partNumber # <<>> /\ item.productName # <<>>

\* the record the Grainger scraper reads from a container; productUrl is the
\* link's href resolved against the base URL, '' without a link
GraingerRecord(container) ==
  [partNumber   |-> getTextBySelectors(container, selectors.partNumber),
   productName  |-> getTextBySelectors(container, selectors.productName),
   priceText    |-> getTextBySelectors(container, selectors.price),
   availability |-> getTextBySelectors(container, selectors.availability),
   productUrl   |-> IF ProductLink \in DOMAIN container
                      THEN Text("https://www.grainger.com") \o container[ProductLink]
                      ELSE <<>>]

\* if (partNumber && productName && priceText) in parseHTMLForPrices and in
\* extractPricingData
GraingerPromoted(item) ==
  item.partNumber # <<>> /\ item.productName # <<>> /\ item.priceText # <<>>

\* the first container selector candidate that matches, 0 if none does
FirstContainerSelector(document, candidates) ==
  FirstIndex([k \in 1..Len(candidates) |->
                Len(querySelectorAll(document, candidates[k])) > 0])

\* \d+(?:,\d{3})*(?:\.\d{2})?
AmountPattern ==
  << Set(Digit, 1, 0),
     Grp(<<Set({","}, 1, 1), Set(Digit, 3, 3)>>, 0, 0),
     Grp(<<Set({"."}, 1, 1), Set(Digit, 2, 2)>>, 0, 1) >>

\* the value of a decimal digit
DigitValue(c) == CHOOSE n \in 0..9 : SubSeq("0123456789", n + 1, n + 1) = c

\* the number written by a sequence of digits
RECURSIVE DigitsValue(_)
DigitsValue(digits) ==
  IF digits = <<>> THEN 0
  ELSE 10 * DigitsValue(SubSeq(digits, 1, Len(digits) - 1))
         + DigitValue(digits[Len(digits)])

\* str.replace(/,/g, '')
RECURSIVE StripCommas(_)
StripCommas(str) ==
  IF str = <<>> THEN <<>>
  ELSE IF Head(str) = "," THEN StripCommas(Tail(str))
  ELSE <<Head(str)>> \o StripCommas(Tail(str))

\* parseFloat(match[1].replace(/,/g, '')) of a matched amount, in cents
parseFloat(amount) ==
  LET plain == StripCommas(amount)
      dot == FirstIndex([i \in 1..Len(plain) |-> plain[i] = "."])
  IN IF dot = 0 THEN 100 * DigitsValue(plain)
     ELSE 100 * DigitsValue(SubSeq(plain, 1, dot - 1))
            + DigitsValue(SubSeq(plain, dot + 1, Len(plain)))

\* a parsed price: null, or a number of cents
Null == [null |-> TRUE]
Number(cents) == [null |-> FALSE, cents |-> cents]
\* the truthiness of a parsed price: null and 0 are falsy
Truthy(price) == ~price.null /\ price.cents # 0

\* ProductScraper.parsePrice: /\$?(\d+(?:,\d{3})*(?:\.\d{2})?)/
parsePrice(priceText) ==
  LET m == Match(<<Set({"$"}, 0, 1), Grp(AmountPattern, 1, 1)>>, priceText) IN
    IF priceText = <<>> \/ ~m.found THEN Null
    ELSE Number(parseFloat(Capture(m, priceText, 2)))

\* GraingerPriceScraper.parsePrice's patterns, with the item holding the amount;
\* the patterns with the i flag are written in lower case and run on the
\* lower-cased text
PricePatterns ==
  << [regex |-> <<Set({"$"}, 1, 1), Grp(AmountPattern, 1, 1)>>, amount |-> 2,
      ignoreCase |-> FALSE],
     [regex |-> <<Grp(AmountPattern, 1, 1), Set(Space, 0, 0),
                  Alt(<<Lit(Text("usd")), Lit(Text("dollars")), Lit(Text("dollar"))>>)>>,
      amount |-> 1, ignoreCase |-> TRUE],
     [regex |-> Lit(Text("price:")) \o
                <<Set(Space, 0, 0), Set({"$"}, 0, 1), Grp(AmountPattern, 1, 1)>>,
      amount |-> 9, ignoreCase |-> TRUE] >>

\* priceText.match(pattern) for the i-th pattern
PriceMatch(priceText, i) ==
  Match(PricePatterns[i].regex,
        IF PricePatterns[i].ignoreCase THEN toLowerCase(priceText) ELSE priceText)

\* GraingerPriceScraper.parsePrice: the first pattern that matches decides
graingerParsePrice(priceText) ==
  LET i == FirstIndex([k \in 1..Len(PricePatterns) |-> PriceMatch(priceText, k).found])
  IN IF priceText = <<>> \/ i = 0 THEN Null
     ELSE Number(parseFloat(Capture(PriceMatch(priceText, i), priceText,
                                    PricePatterns[i].amount)))

\* GraingerPriceScraper.calculateConfidence, in tenths
calculateConfidence(item) ==
  LET confidence ==
        5 + (IF item.priceText # <<>> /\ Truthy(graingerParsePrice(item.priceText))
               THEN 3 ELSE 0)
          + (IF item.partNumber # <<>> /\ Len(item.partNumber) > 3 THEN 1 ELSE 0)
          + (IF item.productUrl # <<>> THEN 1 ELSE 0)
  IN IF confidence < 10 THEN confidence ELSE 10

\* item.availability || 'Contact supplier'
AvailabilityOrDefault(item) ==
  IF item.availability # <<>> THEN item.availability ELSE Text("Contact supplier")

\* the phrases ProductScraper.parseAvailability looks for
ProductUnavailableKeywords ==
  <<Text("out of stock"), Text("discontinued"), Text("unavailable")>>

\* unavailableKeywords in GraingerPriceScraper.parseAvailability
unavailableKeywords ==
  <<Text("out of stock"), Text("discontinued"), Text("unavailable"),
    Text("backordered"), Text("special order"), Text("not available")>>

\* unavailableKeywords.some(keyword => text.includes(keyword))
SomeIncluded(text, keywords) ==
  \E k \in 1..Len(keywords) : includes(text, keywords[k])

\* ProductScraper.parseAvailability
parseAvailability(availabilityText) ==
  IF availabilityText = <<>> THEN TRUE
  ELSE ~SomeIncluded(toLowerCase(availabilityText), ProductUnavailableKeywords)

\* GraingerPriceScraper.parseAvailability
graingerParseAvailability(availabilityText) ==
  IF availabilityText = <<>> THEN TRUE
  ELSE ~SomeIncluded(toLowerCase(availabilityText), unavailableKeywords)

\* ProductScraper.normalizeResults (lastUpdated left out)
normalizeResults(results, supplier) ==
  [i \in 1..Len(results) |->
     [partNumber   |-> results[i].partNumber,
      name         |-> results[i].productName,
      price        |-> parsePrice(results[i].priceText),
      priceText    |-> results[i].priceText,
      availability |-> AvailabilityOrDefault(results[i]),
      inStock      |-> parseAvailability(results[i].availability),
      supplier     |-> supplier,
      productUrl   |-> Text("https://www.") \o Text(supplier) \o Text(".com"),
      source       |-> "live_scraping"]]

\* GraingerPriceScraper.normalizeResults (lastUpdated left out)
graingerNormalizeResults(results) ==
  [i \in 1..Len(results) |->
     [partNumber   |-> results[i].partNumber,
      name         |-> results[i].productName,
      price        |-> graingerParsePrice(results[i].priceText),
      priceText    |-> results[i].priceText,
      availability |-> AvailabilityOrDefault(results[i]),
      inStock      |-> graingerParseAvailability(results[i].availability),
      supplier     |-> "grainger",
      productUrl   |-> results[i].productUrl,
      confidence   |-> calculateConfidence(results[i])]]

\* the records of the containers that pass the product scraper's filter
ProductRecords(containers, config) ==
  SelectSeq([k \in 1..Len(containers) |-> ProductRecord(containers[k], config)],
            Promoted)

\* ProductScraper.parseHTML: the containers of the first container selector
\* candidate that matches are read, at most 10 of them
parseHTML(document, supplier) ==
  LET config == SUPPLIERS[supplier]
      candidates == config.selectors.productContainer
      k == FirstContainerSelector(document, candidates)
      containers == IF k = 0 THEN <<>> ELSE querySelectorAll(document, candidates[k])
  IN normalizeResults(ProductRecords(Slice(containers, 10), config), supplier)

\* ProductScraper.scrapeWithPuppeteer, page.evaluate and normalizeResults: the
\* containers are those of config.selectors.productContainer[0]
evaluate(document, supplier) ==
  LET config == SUPPLIERS[supplier]
      containers == querySelectorAll(document, config.selectors.productContainer[1])
  IN normalizeResults(ProductRecords(Slice(containers, 10), config), supplier)

\* the records of the containers that pass the Grainger scraper's filter
GraingerRecords(containers) ==
  SelectSeq([k \in 1..Len(containers) |-> GraingerRecord(containers[k])],
            GraingerPromoted)

\* the containers both Grainger extractions read: those of the first container
\* selector candidate that matches, the first maxResults of them
GraingerContainers(document, limit) ==
  LET k == FirstContainerSelector(document, selectors.productContainer)
  IN IF k = 0 THEN <<>>
     ELSE Slice(querySelectorAll(document, selectors.productContainer[k]), limit)

\* GraingerPriceScraper.parseHTMLForPrices
parseHTMLForPrices(document, limit) ==
  graingerNormalizeResults(GraingerRecords(GraingerContainers(document, limit)))

\* GraingerPriceScraper.extractPricingData: the records are returned as
\* extracted (containerHTML left out)
extractPricingData(document, limit) ==
  GraingerRecords(GraingerContainers(document, limit))

\* the limits searchSingleQuery passes to getLivePrices
GraingerLimits == {CeilDiv(mr, Len(allSuppliers)) : mr \in MaxResultsChoices}

\* What the extractions make of every document, computed once
ProductPage ==
  [supplier \in Products |->
     [d \in DocumentNames |-> parseHTML(Documents(supplier)[d], supplier)]]

ProductRendered ==
  [supplier \in Products |->
     [d \in DocumentNames |-> evaluate(Documents(supplier)[d], supplier)]]

GraingerStaticPage ==
  [limit \in GraingerLimits |->
     [d \in DocumentNames |-> parseHTMLForPrices(Documents("grainger")[d], limit)]]

GraingerRenderedPage ==
  [limit \in GraingerLimits |->
     [d \in DocumentNames |-> extractPricingData(Documents("grainger")[d], limit)]]

\* page.waitForSelector resolves for some container selector candidate
ContainerAppears ==
  [supplier \in Sources |->
     [d \in DocumentNames |->
        FirstContainerSelector(Documents(supplier)[d], ContainerSelectors(supplier)) # 0]]

(***************************************************************************)
(* Settlement of a source's promise                                        *)
(***************************************************************************)
\* The awaits of a rendered fetch
RenderedPcs == {"launching", "newPage", "navigating", "goto", "backoff", "waiting",
                "closing"}

\* A search without the per-source handler: the rejection reaches Promise.all
SourceCatchMissing(rejection) == rejection

\* searchSingleQuery's per-source .catch(error => { console.error(...); return []; })
SourceCatch(rejection) == [settled |-> "fulfilled", value |-> <<>>]

\* Source t's promise settles: fulfilled with value, or rejected with error e,
\* which runs the .catch handler of searchSingleQuery.  pcs is the position of
\* every task before the settlement.
SettleFrom(pcs, t, settled, value, e) ==
  LET mine == [settled |-> settled, value |-> value]
      s == IF settled = "rejected" THEN SourceCatch(mine) ELSE mine
  IN /\ pc' = [pcs EXCEPT ![t] = IF s.settled = "rejected" THEN "rejected" ELSE "done"]
     /\ out' = [out EXCEPT ![t] = s.value]
     /\ err' = [err EXCEPT ![t] = e]

Settle(t, settled, value, e) == SettleFrom(pc, t, settled, value, e)

(***************************************************************************)
(* ProductScraper.scrapeWithPuppeteer                                      *)
(***************************************************************************)
\* The capacity check written with > instead of >=
AtCapacityOffByOne == activeSessions > maxConcurrentSessions

\* this.activeSessions >= this.maxConcurrentSessions
AtCapacity == activeSessions >= maxConcurrentSessions

\* finally { ...; this.activeSessions--; }
Release == activeSessions' = activeSessions - 1

\* ProductScraper.initBrowser up to its await: puppeteer.launch is called when
\* this.browser is not set.
initBrowser(t) ==
  IF browser = "null"
    THEN pc' = [pc EXCEPT ![t] = "launching"]
    ELSE pc' = [pc EXCEPT ![t] = "newPage"]

\* The invocation with the increment placed before the capacity check
scrapeWithPuppeteerCountsFirst(t) ==
  /\ activeSessions' = activeSessions + 1
  /\ IF AtCapacity
       THEN Settle(t, "rejected", <<>>, "capacity")
       ELSE initBrowser(t) /\ UNCHANGED <<out, err>>

\* The invocation up to its first await: the capacity check, the increment and
\* the call of initBrowser run in one piece.
scrapeWithPuppeteer(t) ==
  IF AtCapacity
    THEN /\ Settle(t, "rejected", <<>>, "capacity")
         /\ UNCHANGED activeSessions
    ELSE /\ activeSessions' = activeSessions + 1
         /\ initBrowser(t)
         /\ UNCHANGED <<out, err>>

\* Another request's scrapeWithPuppeteer passes the capacity check and takes a
\* session (a full one throws and changes nothing).
OtherAcquire ==
  /\ otherSessions < MaxOthers
  /\ ~AtCapacity
  /\ activeSessions' = activeSessions + 1
  /\ otherSessions' = otherSessions + 1
  /\ UNCHANGED <<browser, browsers, gbrowser, pc, page, out, err, staticRes, rendered,
                 retries, search, maxResults, queryOk, combinedResults, searchReturn>>
  /\ UNCHANGED <<html, dom, gotos>>
  /\ UNCHANGED smartVars

\* Another request's scrapeWithPuppeteer reaches the end of its finally block.
OtherRelease ==
  /\ otherSessions > 0
  /\ Release
  /\ otherSessions' = otherSessions - 1
  /\ UNCHANGED <<browser, browsers, gbrowser, pc, page, out, err, staticRes, rendered,
                 retries, search, maxResults, queryOk, combinedResults, searchReturn>>
  /\ UNCHANGED <<html, dom, gotos>>
  /\ UNCHANGED smartVars

\* catch { return [] } finally { page is undefined; this.activeSessions-- }
FailBeforePage(t) ==
  /\ Release
  /\ Settle(t, "fulfilled", <<>>, "browser")

\* puppeteer.launch settles: this.browser = <the new browser process>
LaunchDone(t) ==
  /\ t \in Products
  /\ pc[t] = "launching"
  /\ \/ /\ browser' = "browser"
        /\ browsers' = browsers + 1
        /\ pc' = [pc EXCEPT ![t] = "newPage"]
        /\ UNCHANGED <<activeSessions, out, err>>
     \/ /\ FailBeforePage(t)
        /\ UNCHANGED <<browser, browsers>>
  /\ UNCHANGED <<gbrowser, otherSessions, page, staticRes, rendered, retries, search,
                 maxResults, queryOk, combinedResults, searchReturn>>
  /\ UNCHANGED <<html, dom, gotos>>
  /\ UNCHANGED smartVars

\* browser.newPage settles
NewPageDone(t) ==
  /\ t \in Products
  /\ pc[t] = "newPage"
  /\ \/ /\ page' = [page EXCEPT ![t] = "open"]
        /\ pc' = [pc EXCEPT ![t] = "navigating"]
        /\ UNCHANGED <<activeSessions, out, err>>
     \/ /\ FailBeforePage(t)
        /\ UNCHANGED page
  /\ UNCHANGED <<browser, browsers, gbrowser, otherSessions, staticRes, rendered,
                 retries, search, maxResults, queryOk, combinedResults, searchReturn>>
  /\ UNCHANGED <<html, dom, gotos>>
  /\ UNCHANGED smartVars

\* A finally block that releases the session and leaves the page alone
ClosePageForgotten(t) ==
  /\ pc' = [pc EXCEPT ![t] = "closing"]
  /\ UNCHANGED page

\* finally { if (page) await page.close(); ... }: close is invoked on the page
ClosePage(t) ==
  /\ page' = [page EXCEPT ![t] = "closed"]
  /\ pc' = [pc EXCEPT ![t] = "closing"]

\* The page work between newPage and the finally block (the awaits on the page
\* touch nothing shared).  page.goto is called once: it throws, or the page
\* loads a document; then no container selector appears within the timeout, or
\* page.evaluate throws, or the records are extracted and normalized.  Every
\* error is caught and turned into [].
PageDone(t) ==
  /\ t \in Products
  /\ pc[t] = "navigating"
  /\ gotos' = [gotos EXCEPT ![t] = 1]
  /\ \/ /\ out' = [out EXCEPT ![t] = <<>>]
        /\ err' = [err EXCEPT ![t] = "navigation"]
        /\ UNCHANGED dom
     \/ \E d \in DocumentNames :
          /\ dom' = [dom EXCEPT ![t] = d]
          /\ IF ~ContainerAppears[t][d]
               THEN /\ out' = [out EXCEPT ![t] = <<>>]
                    /\ err' = [err EXCEPT ![t] = "nocontainer"]
               ELSE \/ /\ out' = [out EXCEPT ![t] = <<>>]
                       /\ err' = [err EXCEPT ![t] = "extract"]
                    \/ /\ out' = [out EXCEPT ![t] = ProductRendered[t][d]]
                       /\ UNCHANGED err
  /\ ClosePage(t)
  /\ UNCHANGED <<activeSessions, browser, browsers, gbrowser, otherSessions, staticRes,
                 rendered, retries, search, maxResults, queryOk, combinedResults,
                 searchReturn, html>>
  /\ UNCHANGED smartVars

\* page.close settles: the decrement follows it in the finally block, so a close
\* that throws leaves the block before the decrement and rejects the invocation.
CloseDone(t) ==
  /\ t \in Products
  /\ pc[t] = "closing"
  /\ \/ /\ Release
        /\ Settle(t, "fulfilled", out[t], err[t])
     \/ /\ Settle(t, "rejected", <<>>, "close")
        /\ UNCHANGED activeSessions
  /\ UNCHANGED <<browser, browsers, gbrowser, otherSessions, page, staticRes, rendered,
                 retries, search, maxResults, queryOk, combinedResults, searchReturn>>
  /\ UNCHANGED <<html, dom, gotos>>
  /\ UNCHANGED smartVars

(***************************************************************************)
(* ProductScraper.scrapeWithAxios and the static-first chain                *)
(***************************************************************************)
\* What scrapeWithAxios returns to its caller: the listings parseHTML made of
\* the response; a transport failure is caught inside it and returned as [].
scrapeWithAxiosReturn(kind, listings) == IF kind = "response" THEN listings ELSE <<>>

\* A chain that falls through to the rendered fetch whatever the static fetch gave
HasResultsIgnored(results) == FALSE

\* results.length > 0: the static results are returned and no rendered fetch is made
HasResults(results) == Len(results) > 0

\* What a static fetch handed to its caller
StaticOutcome(results) == IF Len(results) > 0 THEN "records" ELSE "empty"

\* axios.get settles for a product supplier, then
\* .then(results => results.length > 0 ? results : this.scrapeWithPuppeteer(...))
AxiosDone(t) ==
  /\ t \in Products
  /\ pc[t] = "axios"
  /\ \E d \in DocumentNames \cup {"none"} :
       LET results == IF d = "none" THEN scrapeWithAxiosReturn("error", <<>>)
                      ELSE scrapeWithAxiosReturn("response", ProductPage[t][d])
       IN /\ html' = [html EXCEPT ![t] = d]
          /\ staticRes' = [staticRes EXCEPT ![t] = StaticOutcome(results)]
          /\ IF HasResults(results)
               THEN /\ Settle(t, "fulfilled", results, "none")
                    /\ UNCHANGED <<activeSessions, rendered>>
               ELSE /\ rendered' = [rendered EXCEPT ![t] = TRUE]
                    /\ scrapeWithPuppeteer(t)
  /\ UNCHANGED <<browser, browsers, gbrowser, otherSessions, page, retries, search,
                 maxResults, queryOk, combinedResults, searchReturn>>
  /\ UNCHANGED <<dom, gotos>>
  /\ UNCHANGED smartVars

(***************************************************************************)
(* GraingerPriceScraper                                                    *)
(***************************************************************************)
G == "grainger"

\* getLivePrices(query, Math.ceil(maxResults / allSuppliers.length))
GraingerLimit == CeilDiv(maxResults, Len(allSuppliers))

\* GraingerPriceScraper.initBrowser up to its await
graingerInitBrowser ==
  IF gbrowser = "null"
    THEN pc' = [pc EXCEPT ![G] = "launching"]
    ELSE pc' = [pc EXCEPT ![G] = "newPage"]

\* axios.get settles in getPricesWithAxios: a failure is rethrown, and
\* getLivePrices falls back to getPricesWithPuppeteer on zero results.
GraingerAxiosDone ==
  /\ pc[G] = "axios"
  /\ \/ /\ staticRes' = [staticRes EXCEPT ![G] = "threw"]
        /\ Settle(G, "rejected", <<>>, "transport")
        /\ UNCHANGED <<rendered, html>>
     \/ \E d \in DocumentNames :
        LET results == GraingerStaticPage[GraingerLimit][d] IN
          /\ html' = [html EXCEPT ![G] = d]
          /\ staticRes' = [staticRes EXCEPT ![G] = StaticOutcome(results)]
          /\ IF HasResults(results)
               THEN /\ Settle(G, "fulfilled", results, "none")
                    /\ UNCHANGED rendered
               ELSE /\ rendered' = [rendered EXCEPT ![G] = TRUE]
                    /\ graingerInitBrowser
                    /\ UNCHANGED <<out, err>>
  /\ UNCHANGED <<activeSessions, browser, browsers, gbrowser, otherSessions, page,
                 retries, search, maxResults, queryOk, combinedResults, searchReturn>>
  /\ UNCHANGED <<dom, gotos>>
  /\ UNCHANGED smartVars

\* puppeteer.launch settles for the Grainger scraper
GraingerLaunchDone ==
  /\ pc[G] = "launching"
  /\ \/ /\ gbrowser' = "browser"
        /\ pc' = [pc EXCEPT ![G] = "newPage"]
        /\ UNCHANGED <<out, err>>
     \/ /\ Settle(G, "rejected", <<>>, "browser")
        /\ UNCHANGED gbrowser
  /\ UNCHANGED <<activeSessions, browser, browsers, otherSessions, page, staticRes,
                 rendered, retries, search, maxResults, queryOk, combinedResults,
                 searchReturn>>
  /\ UNCHANGED <<html, dom, gotos>>
  /\ UNCHANGED smartVars

\* browser.newPage settles; let retries = 2 and the first page.goto follow
GraingerNewPageDone ==
  /\ pc[G] = "newPage"
  /\ \/ /\ page' = [page EXCEPT ![G] = "open"]
        /\ retries' = 2
        /\ gotos' = [gotos EXCEPT ![G] = 1]
        /\ pc' = [pc EXCEPT ![G] = "goto"]
        /\ UNCHANGED <<out, err>>
     \/ /\ Settle(G, "rejected", <<>>, "browser")
        /\ UNCHANGED <<page, retries, gotos>>
  /\ UNCHANGED <<activeSessions, browser, browsers, gbrowser, otherSessions, staticRes,
                 rendered, search, maxResults, queryOk, combinedResults, searchReturn>>
  /\ UNCHANGED <<html, dom>>
  /\ UNCHANGED smartVars

\* page.goto settles inside while (retries > 0) { try ... catch { retries--; ... } }
GraingerGotoDone ==
  /\ pc[G] = "goto"
  /\ \/ /\ pc' = [pc EXCEPT ![G] = "waiting"]
        /\ UNCHANGED <<retries, page, out, err>>
     \/ /\ retries' = retries - 1
        /\ IF retries' = 0
             THEN /\ ClosePage(G)
                  /\ out' = [out EXCEPT ![G] = <<>>]
                  /\ err' = [err EXCEPT ![G] = "navigation"]
             ELSE /\ pc' = [pc EXCEPT ![G] = "backoff"]
                  /\ UNCHANGED <<page, out, err>>
  /\ UNCHANGED <<activeSessions, browser, browsers, gbrowser, otherSessions, staticRes,
                 rendered, search, maxResults, queryOk, combinedResults, searchReturn>>
  /\ UNCHANGED <<html, dom, gotos>>
  /\ UNCHANGED smartVars

\* the 2000 ms delay between two navigation attempts elapses and the loop
\* calls page.goto again
GraingerBackoffDone ==
  /\ pc[G] = "backoff"
  /\ pc' = [pc EXCEPT ![G] = "goto"]
  /\ gotos' = [gotos EXCEPT ![G] = @ + 1]
  /\ UNCHANGED <<activeSessions, browser, browsers, gbrowser, otherSessions, page, out,
                 err, staticRes, rendered, retries, search, maxResults, queryOk,
                 combinedResults, searchReturn>>
  /\ UNCHANGED <<html, dom>>
  /\ UNCHANGED smartVars

\* waitForProducts and extractPricingData settle on the document the page loaded
GraingerPageDone ==
  /\ pc[G] = "waiting"
  /\ \E d \in DocumentNames :
       /\ dom' = [dom EXCEPT ![G] = d]
       /\ IF ~ContainerAppears[G][d]
            THEN /\ out' = [out EXCEPT ![G] = <<>>]
                 /\ err' = [err EXCEPT ![G] = "nocontainer"]
            ELSE \/ /\ out' = [out EXCEPT ![G] = <<>>]
                    /\ err' = [err EXCEPT ![G] = "extract"]
                 \/ /\ out' = [out EXCEPT ![G] = GraingerRenderedPage[GraingerLimit][d]]
                    /\ UNCHANGED err
  /\ ClosePage(G)
  /\ UNCHANGED <<activeSessions, browser, browsers, gbrowser, otherSessions, staticRes,
                 rendered, retries, search, maxResults, queryOk, combinedResults,
                 searchReturn>>
  /\ UNCHANGED <<html, gotos>>
  /\ UNCHANGED smartVars

\* page.close settles in the finally block of getPricesWithPuppeteer: the caught
\* error was rethrown, and getLivePrices rethrows whatever reaches it.
GraingerCloseDone ==
  /\ pc[G] = "closing"
  /\ \/ IF err[G] = "none"
          THEN Settle(G, "fulfilled", out[G], "none")
          ELSE Settle(G, "rejected", <<>>, err[G])
     \/ Settle(G, "rejected", <<>>, "close")
  /\ UNCHANGED <<activeSessions, browser, browsers, gbrowser, otherSessions, page,
                 staticRes, rendered, retries, search, maxResults, queryOk,
                 combinedResults, searchReturn>>
  /\ UNCHANGED <<html, dom, gotos>>
  /\ UNCHANGED smartVars

(***************************************************************************)
(* ProductScraper.searchSingleQuery                                        *)
(***************************************************************************)
\* The for loop: every source's static fetch is started, in allSuppliers order.
\* getLivePrices throws at once on a query shorter than 2 characters.
StartSearch ==
  /\ search = "idle"
  /\ \E mr \in MaxResultsChoices, ok \in BOOLEAN :
       /\ maxResults' = mr
       /\ queryOk' = ok
       /\ LET started == [t \in Sources |-> IF t \in Products THEN "axios" ELSE pc[t]]
          IN IF ok
               THEN /\ pc' = [started EXCEPT ![G] = "axios"]
                    /\ UNCHANGED <<out, err>>
               ELSE SettleFrom(started, G, "rejected", <<>>, "query")
  /\ search' = "running"
  /\ UNCHANGED <<activeSessions, browser, browsers, gbrowser, otherSessions, page,
                 staticRes, rendered, retries, combinedResults, searchReturn>>
  /\ UNCHANGED <<html, dom, gotos>>
  /\ UNCHANGED smartVars

\* A return value truncated before the duplicates are removed
SliceThenUnique(results, n) == removeDuplicates(Slice(results, n))

\* const uniqueResults = this.removeDuplicates(combinedResults);
\* return uniqueResults.slice(0, maxResults);
UniqueThenSlice(results, n) == Slice(removeDuplicates(results), n)

\* allResults.flat()
Flat == out[allSuppliers[1]] \o out[allSuppliers[2]] \o out[allSuppliers[3]]

\* A join that settles with the first source to settle
PromiseRace(pcs) == \E t \in DOMAIN pcs : pcs[t] \in {"done", "rejected"}

\* Promise.all over the sources' promises is settled: fulfilled once every
\* promise is fulfilled, rejected as soon as one is rejected.
PromiseAll(pcs) ==
  (\A t \in DOMAIN pcs : pcs[t] = "done") \/ (\E t \in DOMAIN pcs : pcs[t] = "rejected")

\* await Promise.all(searchPromises) settles: fulfilled once every source's
\* promise is, rejected as soon as one is (then catch { return [] }).
Join ==
  /\ search = "running"
  /\ PromiseAll(pc)
  /\ IF \E t \in Sources : pc[t] = "rejected"
       THEN /\ searchReturn' = <<>>
            /\ UNCHANGED combinedResults
       ELSE /\ combinedResults' = Flat
            /\ searchReturn' = UniqueThenSlice(Flat, maxResults)
  /\ search' = "returned"
  /\ UNCHANGED <<activeSessions, browser, browsers, gbrowser, otherSessions, pc, page,
                 out, err, staticRes, rendered, retries, maxResults, queryOk>>
  /\ UNCHANGED <<html, dom, gotos>>
  /\ UNCHANGED smartVars

(***************************************************************************)
(* The search among the sessions of other requests                         *)
(***************************************************************************)
FetchInit ==
  /\ activeSessions = 0
  /\ browser = "null"
  /\ browsers = 0
  /\ gbrowser = "null"
  /\ otherSessions = 0
  /\ pc = [t \in Sources |-> "idle"]
  /\ page = [t \in Sources |-> "none"]
  /\ out = [t \in Sources |-> <<>>]
  /\ err = [t \in Sources |-> "none"]
  /\ staticRes = [t \in Sources |-> "pending"]
  /\ html = [t \in Sources |-> "none"]
  /\ dom = [t \in Sources |-> "none"]
  /\ gotos = [t \in Sources |-> 0]
  /\ rendered = [t \in Sources |-> FALSE]
  /\ retries = 2
  /\ search = "idle"
  /\ maxResults = 10
  /\ queryOk = TRUE
  /\ combinedResults = <<>>
  /\ searchReturn = <<>>

SmartInit ==
  /\ request = [kind |-> "none"]
  /\ smart = "idle"
  /\ originalQuery = <<>>
  /\ enhancement = [method |-> "none"]
  /\ calls = <<>>
  /\ inflight = 0
  /\ smartReturn = [method |-> "none"]
  /\ apiKey \in BOOLEAN
  /\ llmCalls = 0
  /\ llmOutcome = [kind |-> "none"]

Init == FetchInit /\ SmartInit

Next ==
  \/ StartSearch
  \/ OtherAcquire
  \/ OtherRelease
  \/ \E t \in Products : AxiosDone(t)
  \/ \E t \in Products : LaunchDone(t)
  \/ \E t \in Products : NewPageDone(t)
  \/ \E t \in Products : PageDone(t)
  \/ \E t \in Products : CloseDone(t)
  \/ GraingerAxiosDone
  \/ GraingerLaunchDone
  \/ GraingerNewPageDone
  \/ GraingerGotoDone
  \/ GraingerBackoffDone
  \/ GraingerPageDone
  \/ GraingerCloseDone
  \/ Join

\* searchSingleQuery does not reach the enhancer: the API key is left unset
FetchOnlyInit == Init /\ ~apiKey

Spec == FetchOnlyInit /\ [][Next]_vars

(***************************************************************************)
(* LLMSearchEnhancer: the rule-based enhancement                           *)
(***************************************************************************)
\* this.partCategories, in key order
partCategories ==
  << [category |-> Text("bearings"),
      parts |-> <<Text("ball bearing"), Text("roller bearing"), Text("thrust bearing"),
                  Text("pillow block"), Text("flange bearing")>>],
     [category |-> Text("seals"),
      parts |-> <<Text("oil seal"), Text("hydraulic seal"), Text("o-ring"),
                  Text("gasket"), Text("mechanical seal")>>],
     [category |-> Text("fasteners"),
      parts |-> <<Text("bolt"), Text("screw"), Text("nut"), Text("washer"),
                  Text("stud")>>],
     [category |-> Text("electrical"),
      parts |-> <<Text("motor"), Text("switch"), Text("relay"), Text("contactor"),
                  Text("fuse")>>],
     [category |-> Text("hydraulic"),
      parts |-> <<Text("cylinder"), Text("pump"), Text("valve"), Text("hose"),
                  Text("fitting")>>],
     [category |-> Text("pneumatic"),
      parts |-> <<Text("air cylinder"), Text("air valve"), Text("air filter"),
                  Text("regulator"), Text("lubricator")>>] >>

\* this.equipmentMappings, in key order
equipmentMappings ==
  << [equipment |-> Text("conveyor"),
      parts |-> <<Text("bearing"), Text("belt"), Text("roller"), Text("motor"),
                  Text("chain")>>],
     [equipment |-> Text("pump"),
      parts |-> <<Text("seal"), Text("impeller"), Text("bearing"), Text("coupling"),
                  Text("gasket")>>],
     [equipment |-> Text("compressor"),
      parts |-> <<Text("belt"), Text("filter"), Text("valve"), Text("pressure switch"),
                  Text("motor")>>],
     [equipment |-> Text("forklift"),
      parts |-> <<Text("hydraulic cylinder"), Text("filter"), Text("chain"),
                  Text("tire"), Text("battery")>>],
     [equipment |-> Text("crane"),
      parts |-> <<Text("wire rope"), Text("hook"), Text("bearing"), Text("brake"),
                  Text("motor")>>] >>

\* categoryMappings of ruleBasedEnhancement, in key order
categoryMappings ==
  << [generic |-> Text("bearing"),
      specific |-> <<Text("6203 bearing"), Text("6202 bearing"),
                     Text("pillow block bearing")>>],
     [generic |-> Text("seal"),
      specific |-> <<Text("hydraulic seal"), Text("oil seal 25x40x7")>>],
     [generic |-> Text("bolt"),
      specific |-> <<Text("M8 bolt"), Text("hex bolt"), Text("socket head cap screw")>>],
     [generic |-> Text("gasket"),
      specific |-> <<Text("O-ring"), Text("hydraulic gasket"), Text("flange gasket")>>],
     [generic |-> Text("filter"),
      specific |-> <<Text("hydraulic filter"), Text("air filter"), Text("oil filter")>>],
     [generic |-> Text("motor"),
      specific |-> <<Text("1HP motor"), Text("stepper motor"), Text("12V DC motor")>>],
     [generic |-> Text("valve"),
      specific |-> <<Text("ball valve"), Text("check valve"), Text("solenoid valve")>>],
     [generic |-> Text("pump"),
      specific |-> <<Text("hydraulic pump"), Text("water pump"), Text("gear pump")>>] >>

\* /\b([a-z]*[-\s]*\d{3,8}[a-z]*[-\s]*[a-z\d]*)\b/
PartNumberPattern ==
  << Bnd,
     Grp(<< Set(Lower, 0, 0), Set({"-"} \cup Space, 0, 0), Set(Digit, 3, 8),
            Set(Lower, 0, 0), Set({"-"} \cup Space, 0, 0),
            Set(Lower \cup Digit, 0, 0) >>, 1, 1),
     Bnd >>

\* /(\d+)\s*(mm|cm|inch|"|')/
SizePattern ==
  << Set(Digit, 1, 0), Set(Space, 0, 0),
     Alt(<<Lit(Text("mm")), Lit(Text("cm")), Lit(Text("inch")), Lit(<<"\"">>),
           Lit(<<"'">>)>>) >>

\* let enhancedQuery = normalizedQuery; let confidence = 0.5; let suggestions = []
RuleStart(normalizedQuery) ==
  [enhancedQuery |-> normalizedQuery, confidence |-> 5, suggestions |-> <<>>]

\* A part-number pattern that never matches
PartNumberRuleSkipped(normalizedQuery, r) == r

\* Pattern 1: a part number is found; `${partNumber} bearing`, confidence 0.9
PartNumberRule(normalizedQuery, r) ==
  LET m == Match(PartNumberPattern, normalizedQuery) IN
    IF m.found
      THEN LET partNumber == StripSpaces(Capture(m, normalizedQuery, 2)) IN
             [enhancedQuery |-> partNumber \o Text(" bearing"),
              confidence |-> 9,
              suggestions |-> Append(r.suggestions,
                 Text("Try searching for: \"") \o partNumber \o Text(" bearing\""))]
      ELSE r

\* Pattern 2: a generic category in a query of at most 2 words, confidence 0.8
CategoryRule(normalizedQuery, r) ==
  LET Hit(c) == includes(normalizedQuery, c.generic) /\ SplitLength(normalizedQuery) <= 2
      i == FirstIndex([k \in 1..Len(categoryMappings) |-> Hit(categoryMappings[k])])
  IN IF i > 0
       THEN [enhancedQuery |-> categoryMappings[i].specific[1],
             confidence |-> 8,
             suggestions |-> categoryMappings[i].specific]
       ELSE r

\* Pattern 3: an equipment name, confidence 0.7
EquipmentRule(normalizedQuery, r) ==
  LET Hit(e) == includes(normalizedQuery, e.equipment)
      i == FirstIndex([k \in 1..Len(equipmentMappings) |-> Hit(equipmentMappings[k])])
  IN IF i > 0
       THEN LET e == equipmentMappings[i] IN
            [enhancedQuery |-> e.equipment \o <<" ">> \o e.parts[1],
             confidence |-> 7,
             suggestions |-> [j \in 1..Len(e.parts) |->
                                e.equipment \o <<" ">> \o e.parts[j]]]
       ELSE r

\* Pattern 4: a size with a unit in a bearing query, confidence 0.8
SizeRule(normalizedQuery, r) ==
  LET m == Match(SizePattern, normalizedQuery) IN
    IF m.found /\ includes(normalizedQuery, Text("bearing"))
      THEN [enhancedQuery |-> Capture(m, normalizedQuery, 1)
                                \o Capture(m, normalizedQuery, 3) \o Text(" bearing"),
            confidence |-> 8,
            suggestions |-> r.suggestions]
      ELSE r

\* ruleBasedEnhancement: the four patterns are applied one after the other to the
\* same three locals
ruleBasedEnhancement(query) ==
  LET normalizedQuery == trim(toLowerCase(query))
      r == SizeRule(normalizedQuery,
             EquipmentRule(normalizedQuery,
               CategoryRule(normalizedQuery,
                 PartNumberRule(normalizedQuery, RuleStart(normalizedQuery)))))
  IN [originalQuery |-> query, enhancedQuery |-> r.enhancedQuery,
      suggestions |-> r.suggestions, confidence |-> r.confidence,
      method |-> "rule_based"]

(***************************************************************************)
(* LLMSearchEnhancer: suggestions, the LLM answer, enhanceSearchQuery       *)
(***************************************************************************)
\* the common industrial parts generateSuggestions falls back to
DefaultSuggestions ==
  <<Text("6203 bearing"), Text("hydraulic seal"), Text("M8 bolt"),
    Text("O-ring 25x40x7"), Text("1HP motor")>>

\* parts.slice(0, 2) of every category, from the i-th on, whose name without its
\* last character occurs in the query
RECURSIVE CategorySuggestions(_, _)
CategorySuggestions(normalizedQuery, i) ==
  IF i > Len(partCategories) THEN <<>>
  ELSE LET c == partCategories[i].category
           stem == SubSeq(c, 1, Len(c) - 1)
       IN (IF includes(normalizedQuery, stem)
             THEN Slice(partCategories[i].parts, 2)
             ELSE <<>>)
          \o CategorySuggestions(normalizedQuery, i + 1)

generateSuggestions(query) ==
  LET suggestions == CategorySuggestions(toLowerCase(query), 1) IN
    Slice(IF suggestions = <<>> THEN DefaultSuggestions ELSE suggestions, 3)

\* str.split('\n')
RECURSIVE SplitLines(_)
SplitLines(str) ==
  IF \E i \in 1..Len(str) : str[i] = "\n"
    THEN LET i == CHOOSE i \in 1..Len(str) :
                    str[i] = "\n" /\ \A j \in 1..(i - 1) : str[j] # "\n"
         IN <<SubSeq(str, 1, i - 1)>> \o SplitLines(SubSeq(str, i + 1, Len(str)))
    ELSE <<str>>

\* /^[^:]*:/
LabelPattern == <<Bol, Set(Chars \ {":"}, 0, 0), Set({":"}, 1, 1)>>

\* str.replace(/^[^:]*:/, '')
StripLabel(str) ==
  LET m == Match(LabelPattern, str) IN
    IF m.found THEN SubSeq(str, m.ends[3], Len(str)) ELSE str

\* The catch branch of parseLLMResponse: the first non-blank line mentioning
\* "enhanced" or "search", or the original query, without its label
parseLLMResponseFallback(query, text) ==
  LET Mentions(line) == /\ trim(line) # <<>>
                        /\ \/ includes(toLowerCase(line), Text("enhanced"))
                           \/ includes(toLowerCase(line), Text("search"))
      lines == SplitLines(text)
      i == FirstIndex([k \in 1..Len(lines) |-> Mentions(lines[k])])
      enhancedQuery == IF i > 0 THEN lines[i] ELSE query
  IN [originalQuery |-> query,
      enhancedQuery |-> trim(StripLabel(enhancedQuery)),
      suggestions |-> <<>>,
      confidence |-> 6,
      method |-> "llm_fallback"]

\* parseLLMResponse.  content.text is the message content; content.json is what
\* JSON.parse makes of it: "object" with content.value its properties, "null"
\* (reading a property of it throws inside the try), or "throws".
parseLLMResponse(query, content) ==
  IF content.json = "object"
    THEN LET parsed == content.value IN
      [originalQuery |-> query,
       enhancedQuery |-> IF "enhancedQuery" \in DOMAIN parsed /\ parsed.enhancedQuery # <<>>
                           THEN parsed.enhancedQuery ELSE query,
       suggestions |-> IF "alternatives" \in DOMAIN parsed
                         THEN parsed.alternatives ELSE <<>>,
       confidence |-> IF "confidence" \in DOMAIN parsed /\ parsed.confidence # 0
                        THEN parsed.confidence ELSE 6,
       method |-> "llm"]
    ELSE parseLLMResponseFallback(query, content.text)

\* How the request to the LLM endpoint can fail: axios.post rejects, or the
\* response body has no choices[0].message
LLMFailures == {"network", "timeout", "status", "structure"}

\* Message contents the LLM may answer with
LLMContents ==
  { [json |-> "object",
     value |-> [enhancedQuery |-> Text("6203 ball bearing"),
                alternatives |-> <<Text("6203 bearing"), Text("SKF 6203"),
                                   Text("6203-2RS")>>,
                confidence |-> 9]],
    [json |-> "object",
     value |-> [enhancedQuery |-> Text("6203 ball bearing"), confidence |-> 850]],
    [json |-> "object",
     value |-> [alternatives |-> <<Text("6203 bearing")>>, confidence |-> 0]],
    [json |-> "object", value |-> [reasoning |-> <<>>]],
    [json |-> "object",
     value |-> [enhancedQuery |-> Text(" 6 "), alternatives |-> <<Text("x")>>,
                confidence |-> 9]],
    [text |-> Text("null"), json |-> "null"],
    [text |-> Text("Sure\n\nEnhanced query: 6203 ball bearing\nConfidence: 0.9"),
     json |-> "throws"],
    [text |-> Text("I cannot help with that"), json |-> "throws"] }

LLMOutcomes ==
  {[kind |-> f] : f \in LLMFailures}
  \cup {[kind |-> "content", content |-> c] : c \in LLMContents}

\* llmBasedEnhancement once the request has ended
llmBasedEnhancement(query, outcome) ==
  IF outcome.kind \in LLMFailures
    THEN [settled |-> "rejected", error |-> outcome.kind]
    ELSE [settled |-> "fulfilled", value |-> parseLLMResponse(query, outcome.content)]

\* ruleBasedResult.confidence > 0.7
ShortCircuits(ruleBasedResult) == ruleBasedResult.confidence > 7

\* The fallback with the lower-cased, trimmed query in place of the original
PassthroughNormalized(query) ==
  [originalQuery |-> query,
   enhancedQuery |-> trim(toLowerCase(query)),
   suggestions |-> generateSuggestions(query),
   confidence |-> 3,
   method |-> "passthrough"]

\* return { originalQuery, enhancedQuery: originalQuery, ..., method: 'passthrough' }
Passthrough(query) ==
  [originalQuery |-> query,
   enhancedQuery |-> query,
   suggestions |-> generateSuggestions(query),
   confidence |-> 3,
   method |-> "passthrough"]

\* An enhanceSearchQuery without its catch block: the failure leaves it
EnhanceCatchMissing(query, rejection) == rejection

\* catch (error) { return { ..., method: 'error_fallback', error: error.message } }
EnhanceCatch(query, rejection) ==
  [settled |-> "fulfilled",
   value |-> [originalQuery |-> query,
              enhancedQuery |-> query,
              suggestions |-> generateSuggestions(query),
              confidence |-> 3,
              method |-> "error_fallback",
              error |-> rejection.error]]

\* enhanceSearchQuery after `await this.llmBasedEnhancement(originalQuery)`
enhanceAfterLLM(query, outcome) ==
  LET p == llmBasedEnhancement(query, outcome) IN
    IF p.settled = "rejected" THEN EnhanceCatch(query, p) ELSE p

(***************************************************************************)
(* LLMSearchEnhancer.smartSearch                                           *)
(***************************************************************************)
\* The queries smartSearch is called with
OriginalQueries ==
  {Text("6203"), Text("6203 bearing"), Text("bearing"), Text("conveyor"),
   Text(" XyZ "), Text("xyz"), Text("25mm bearing")}

\* What searchFunction(query) resolves to when it finds n listings
Results(query, n) == [i \in 1..n |-> [query |-> query, rank |-> i]]

\* A loop over every suggestion instead of the first two
SuggestionsToTryAll(e) == e.suggestions

\* enhancement.suggestions.slice(0, 2)
SuggestionsToTry(e) == Slice(e.suggestions, 2)

\* confidence reported for a suggestion that produced results
SuggestionConfidence == 7
\* confidence reported with the original query, the last resort
OriginalConfidence == 3

\* The values of req.query.q: absent, or a string
Requests ==
  {[kind |-> "missing"]}
    \cup {[kind |-> "given", q |-> q] :
            q \in OriginalQueries \cup {<<>>, Text(" "), Text("x"), Text(" a ")}}

\* A validation that measures the query as it was sent
QueryRejectedUntrimmed(req) ==
  req.kind = "missing" \/ req.q = <<>> \/ Len(req.q) < 2

\* if (!query || query.trim().length < 2) in the /api/search handler
QueryRejected(req) ==
  req.kind = "missing" \/ req.q = <<>> \/ Len(trim(req.q)) < 2

\* if (!query || query.trim().length < 2) in getLivePrices
getLivePricesThrows(query) == query = <<>> \/ Len(trim(query)) < 2

\* The /api/search handler runs up to its first await.  A rejected query is
\* answered with status 400 at once.  Otherwise smartSearch(originalQuery,
\* searchFunction) is called and enhanceSearchQuery runs up to its await: the
\* rule-based result is returned when it short-circuits, the LLM is requested
\* when there is an API key, the passthrough is returned otherwise.
SmartStart ==
  /\ smart = "idle"
  /\ \E req \in Requests :
       /\ request' = req
       /\ IF QueryRejected(req)
            THEN /\ smart' = "rejected"
                 /\ UNCHANGED <<originalQuery, enhancement, llmCalls>>
            ELSE LET ruleBasedResult == ruleBasedEnhancement(req.q) IN
                   /\ originalQuery' = req.q
                   /\ IF ShortCircuits(ruleBasedResult)
                        THEN /\ enhancement' = ruleBasedResult
                             /\ smart' = "enhancing"
                             /\ UNCHANGED llmCalls
                      ELSE IF apiKey
                        THEN /\ llmCalls' = llmCalls + 1
                             /\ smart' = "llm"
                             /\ UNCHANGED enhancement
                      ELSE /\ enhancement' = Passthrough(req.q)
                           /\ smart' = "enhancing"
                           /\ UNCHANGED llmCalls
  /\ UNCHANGED <<calls, inflight, smartReturn, apiKey, llmOutcome>>
  /\ UNCHANGED fetchVars

\* The LLM request ends: its answer is parsed, its failure is caught
LLMDone ==
  /\ smart = "llm"
  /\ \E outcome \in LLMOutcomes :
       LET p == enhanceAfterLLM(originalQuery, outcome) IN
         /\ llmOutcome' = outcome
         /\ IF p.settled = "fulfilled"
              THEN enhancement' = p.value /\ smart' = "enhancing"
              ELSE smart' = "threw" /\ UNCHANGED enhancement
  /\ UNCHANGED <<request, originalQuery, calls, inflight, smartReturn, apiKey,
                 llmCalls>>
  /\ UNCHANGED fetchVars

\* searchFunction(query) is called for a stage of the cascade; searchSingleQuery
\* starts every source, and getLivePrices issues Grainger's static fetch unless
\* it throws on the query
CallSearch(done, query, stage) ==
  /\ calls' = Append(done, [query |-> query, stage |-> stage, results |-> <<>>,
                            completed |-> FALSE, failed |-> FALSE,
                            graingerFetch |-> ~getLivePricesThrows(query)])
  /\ smart' = "searching"
  /\ UNCHANGED smartReturn

\* enhanceSearchQuery resolves; the enhanced query is searched first
EnhanceDone ==
  /\ smart = "enhancing"
  /\ CallSearch(calls, enhancement.enhancedQuery, "enhanced")
  /\ inflight' = inflight + 1
  /\ UNCHANGED <<request, originalQuery, enhancement, apiKey, llmCalls, llmOutcome>>
  /\ UNCHANGED fetchVars

\* A cascade that starts over from the enhanced query until a stage has found
\* listings
SmartReturnWhenFound(done, results, query, method, confidence) ==
  IF results = <<>>
    THEN /\ calls' = <<>>
         /\ smart' = "enhancing"
         /\ UNCHANGED smartReturn
    ELSE /\ smartReturn' = [results |-> results, query |-> query,
                            originalQuery |-> originalQuery, method |-> method,
                            confidence |-> confidence]
         /\ calls' = done
         /\ smart' = "returned"

\* return { results, query, originalQuery, method, confidence }; the return of
\* the original-query stage also carries the enhancement's suggestions
SmartReturn(done, results, query, method, confidence) ==
  /\ smartReturn' =
       IF method = "original"
         THEN [results |-> results, query |-> query,
               originalQuery |-> originalQuery, method |-> method,
               confidence |-> confidence, suggestions |-> enhancement.suggestions]
         ELSE [results |-> results, query |-> query,
               originalQuery |-> originalQuery, method |-> method,
               confidence |-> confidence]
  /\ calls' = done
  /\ smart' = "returned"

\* A searchFunction that rejects when every source failed
searchFunctionRejects(failed, listings) ==
  IF failed THEN [settled |-> "rejected"]
  ELSE [settled |-> "fulfilled", value |-> listings]

\* searchFunction is (enhancedQuery) => scraper.searchSingleQuery(enhancedQuery,
\* limit): the failure of a source is caught per source and that of Promise.all
\* by catch (error) { return [] }, so it resolves, with [] when every source failed.
searchFunction(failed, listings) ==
  [settled |-> "fulfilled", value |-> IF failed THEN <<>> ELSE listings]

\* searchFunction settles, every source having failed or n listings having
\* been found: return them if there are any, otherwise go on to the next
\* suggestion of the first two, then to the original query, whose results are
\* returned whatever they are.
SearchDone ==
  /\ smart = "searching"
  /\ \E n \in 0..MaxHits, failed \in BOOLEAN :
       LET k == Len(calls)
           cur == calls[k]
           settled == searchFunction(failed /\ n = 0, Results(cur.query, n))
           results == IF settled.settled = "fulfilled" THEN settled.value ELSE <<>>
           done == [calls EXCEPT ![k].results = results, ![k].completed = TRUE,
                                 ![k].failed = failed /\ n = 0]
           tried == Cardinality({i \in 1..k : calls[i].stage = "suggestion"})
           todo == SuggestionsToTry(enhancement)
       IN IF settled.settled = "rejected"
            THEN /\ smart' = "threw"
                 /\ calls' = done
                 /\ inflight' = inflight - 1
                 /\ UNCHANGED smartReturn
          ELSE IF cur.stage = "original"
            THEN /\ SmartReturn(done, results, originalQuery, "original",
                                OriginalConfidence)
                 /\ inflight' = inflight - 1
          ELSE IF Len(results) > 0
            THEN /\ IF cur.stage = "enhanced"
                      THEN SmartReturn(done, results, enhancement.enhancedQuery,
                                       enhancement.method, enhancement.confidence)
                      ELSE SmartReturn(done, results, cur.query, "suggestion",
                                       SuggestionConfidence)
                 /\ inflight' = inflight - 1
          ELSE IF tried < Len(todo)
            THEN /\ CallSearch(done, todo[tried + 1], "suggestion")
                 /\ inflight' = inflight
          ELSE /\ CallSearch(done, originalQuery, "original")
               /\ inflight' = inflight
  /\ UNCHANGED <<request, originalQuery, enhancement, apiKey, llmCalls, llmOutcome>>
  /\ UNCHANGED fetchVars

SmartNext ==
  \/ SmartStart
  \/ LLMDone
  \/ EnhanceDone
  \/ SearchDone

SmartSpec == Init /\ [][SmartNext]_vars

\* Every external call returns or times out (the LLM request has a timeout of
\* 10 s, every fetch of a search has its own), and the event loop runs the
\* continuation of every await that has settled: each step after the request
\* is taken once it can be.  No request need ever arrive.
SmartLiveSpec ==
  SmartSpec /\ WF_vars(LLMDone) /\ WF_vars(EnhanceDone) /\ WF_vars(SearchDone)

(***************************************************************************)
(* Properties of the search and the session counter                        *)
(***************************************************************************)
\* The rendered fetches of the modelled search that are in progress
RenderingSources == {t \in Sources : pc[t] \in RenderedPcs}

\* C1: in every reachable state 0 <= activeSessions <= maxConcurrentSessions: no
\* interleaving of scrapeWithPuppeteer invocations admits a fourth session or
\* drives the counter below zero.
SessionsWithinCeiling ==
  /\ activeSessions >= 0
  /\ activeSessions <= maxConcurrentSessions

\* C1 witness: the ceiling is reached while both product sources of the search
\* and another request are inside scrapeWithPuppeteer.
CeilingReachedConcurrently ==
  /\ activeSessions = maxConcurrentSessions
  /\ \A t \in Products : pc[t] \in RenderedPcs
  /\ otherSessions > 0

\* C2: the rendered fetches in progress in the process, those of ProductScraper
\* (of this search and of other requests) and of GraingerPriceScraper counted
\* together, never exceed maxConcurrentSessions.
RenderedFetchesWithinCeiling ==
  Cardinality(RenderingSources) + otherSessions <= maxConcurrentSessions

\* C3: every scrapeWithPuppeteer invocation that took a session gives it back on
\* every exit path, so activeSessions is 0 whenever no invocation is in flight.
SessionsReleasedWhenIdle ==
  ((\A t \in Products : pc[t] \notin RenderedPcs) /\ otherSessions = 0)
    => activeSessions = 0

\* C4: an invocation of scrapeWithPuppeteer made at the ceiling fails at once
\* with the capacity error: it does not wait, opens no page and leaves
\* activeSessions unchanged; searchSingleQuery takes the source as contributing
\* no record and goes on to return.
CapacityFailsFast ==
  /\ [][\A t \in Products :
          (pc[t] = "axios" /\ rendered'[t] /\ activeSessions >= maxConcurrentSessions)
            => /\ pc'[t] = "done"
               /\ err'[t] = "capacity"
               /\ out'[t] = <<>>
               /\ page'[t] = "none"
               /\ activeSessions' = activeSessions]_vars
  /\ [](\A t \in Products :
          err[t] = "capacity" => pc[t] = "done" /\ out[t] = <<>> /\ page[t] = "none")
  /\ []((search = "returned" /\ \E t \in Products : err[t] = "capacity")
          => combinedResults = Flat)

\* C4 witness: mscdirect was refused at the ceiling and the search returned the
\* listings of another source.
CapacityRefusedAndSearchReturned ==
  /\ err["mscdirect"] = "capacity"
  /\ search = "returned"
  /\ Len(searchReturn) > 0

\* C5: ProductScraper's browser is a singleton: puppeteer.launch never starts a
\* second browser process, however the rendered fetches interleave.
SingleBrowserProcess == browsers <= 1

\* C6: every page a rendered fetch opened has had page.close invoked on it when
\* the fetch completes, whatever the exit path; a page is open only while its
\* fetch is between newPage and the finally block.
PageClosedOnExit ==
  \A t \in Sources :
    /\ pc[t] \in {"done", "rejected"} => page[t] # "open"
    /\ page[t] = "open" => pc[t] \in {"navigating", "goto", "backoff", "waiting"}

\* C6 witness: mcmaster's rendered fetch ended on a missing container and
\* Grainger's on a failed navigation, both with close invoked on their page, and
\* mscdirect's rendered fetch returned records with its page closed.
PagesClosedOnThreeExitPaths ==
  /\ pc["mcmaster"] = "done" /\ err["mcmaster"] = "nocontainer"
  /\ page["mcmaster"] = "closed"
  /\ pc[G] = "done" /\ err[G] = "navigation" /\ page[G] = "closed"
  /\ pc["mscdirect"] = "done" /\ err["mscdirect"] = "none"
  /\ page["mscdirect"] = "closed" /\ Len(out["mscdirect"]) > 0

\* C7: per source the static fetch comes first; the rendered fetch is started
\* only after the static fetch completed with zero records, never while it is in
\* progress, and never when it returned a record.
StaticBeforeRendered ==
  \A t \in Sources :
    /\ (rendered[t] \/ pc[t] \in RenderedPcs) => staticRes[t] = "empty"
    /\ pc[t] \in {"idle", "axios"} => ~rendered[t] /\ staticRes[t] = "pending"
    /\ staticRes[t] \in {"records", "threw"} => ~rendered[t] /\ page[t] = "none"

\* C7 witness: mcmaster is in its rendered fetch after an empty static fetch,
\* while mscdirect and Grainger ended on their static records without one.
RenderedOnlyAfterEmptyStatic ==
  /\ pc["mcmaster"] = "navigating" /\ staticRes["mcmaster"] = "empty"
  /\ pc["mscdirect"] = "done" /\ staticRes["mscdirect"] = "records"
  /\ pc[G] = "done" /\ staticRes[G] = "records" /\ ~rendered[G]

\* The sources whose fetch failed
FailedSources == {t \in Sources : err[t] # "none"}

\* C10: whatever sources fail (static transport failure, navigation failure, no
\* container, capacity), the search returns without a rejection reaching it,
\* each failed source contributes nothing, and every listing of the sources that
\* succeeded is in the aggregate before deduplication and truncation.
FailuresIsolated ==
  search = "returned" =>
    /\ \A t \in Sources : pc[t] = "done"
    /\ \A t \in FailedSources : out[t] = <<>>
    /\ combinedResults = Flat
    /\ \A t \in Sources : \A i \in 1..Len(out[t]) :
         \E j \in 1..Len(combinedResults) : combinedResults[j] = out[t][i]

\* C10 witness: Grainger's static fetch failed on transport and mcmaster was
\* refused at the ceiling, and the aggregate holds mscdirect's listings.
TwoSourcesFailedOneDelivered ==
  /\ search = "returned"
  /\ err[G] = "transport"
  /\ err["mcmaster"] = "capacity"
  /\ Len(out["mscdirect"]) > 0
  /\ combinedResults = out["mscdirect"]

(***************************************************************************)
(* Properties of smartSearch                                               *)
(***************************************************************************)
\* The query and the stage of the i-th searchFunction call of the cascade:
\* the enhanced query, the first two suggestions in their order, the original.
CascadeStage(i) ==
  LET k == IF Len(enhancement.suggestions) < 2 THEN Len(enhancement.suggestions) ELSE 2
  IN IF i = 1 THEN [query |-> enhancement.enhancedQuery, stage |-> "enhanced"]
     ELSE IF i <= k + 1
       THEN [query |-> enhancement.suggestions[i - 1], stage |-> "suggestion"]
     ELSE IF i = k + 2 THEN [query |-> originalQuery, stage |-> "original"]
     ELSE [query |-> "none", stage |-> "none"]

\* C8: smartSearch calls searchFunction with the enhanced query, then with at
\* most the first 2 suggestions in their order, then with the original query;
\* each call follows a call that completed with zero results, no two calls
\* overlap, and there are at most 4 calls.
CascadeInOrder ==
  /\ inflight <= 1
  /\ Len(calls) <= 4
  /\ \A i \in 1..Len(calls) :
       /\ calls[i].query = CascadeStage(i).query
       /\ calls[i].stage = CascadeStage(i).stage
       /\ i < Len(calls) => calls[i].completed /\ calls[i].results = <<>>

\* C8 witness: an enhancement with 3 suggestions, every stage empty: the call
\* returned after 4 calls, the third suggestion never searched.
FullCascadeRun ==
  /\ smart = "returned"
  /\ Len(enhancement.suggestions) = 3
  /\ Len(calls) = 4
  /\ smartReturn.method = "original"

\* C9: the first stage whose call returns a result ends the cascade and
\* smartSearch returns that call's results, the string searched and the stage's
\* method; the confidence is the enhancer's for the enhanced-query stage and, for
\* a later stage, a fixed value lower than the enhancer's confidence.
FirstHitReported ==
  smart = "returned" =>
    LET last == calls[Len(calls)] IN
      /\ \A i \in 1..(Len(calls) - 1) : calls[i].results = <<>>
      /\ last.stage # "original" => Len(last.results) > 0
      /\ smartReturn.results = last.results
      /\ smartReturn.query = last.query
      /\ smartReturn.method =
           (IF last.stage = "enhanced" THEN enhancement.method ELSE last.stage)
      /\ last.stage = "enhanced" => smartReturn.confidence = enhancement.confidence
      /\ last.stage = "suggestion" => smartReturn.confidence = SuggestionConfidence
      /\ last.stage = "original" => smartReturn.confidence = OriginalConfidence
      /\ last.stage # "enhanced" => smartReturn.confidence < enhancement.confidence

(***************************************************************************)
(* Properties of the query enhancer                                        *)
(***************************************************************************)
\* enhanceSearchQuery has returned: enhancement holds its result
Resolved == smart \in {"enhancing", "searching", "returned"}

\* What each of the four checks makes of the query on its own, in their order
RuleOutputs(query) ==
  LET normalizedQuery == trim(toLowerCase(query))
      r == RuleStart(normalizedQuery)
  IN << PartNumberRule(normalizedQuery, r), CategoryRule(normalizedQuery, r),
        EquipmentRule(normalizedQuery, r), SizeRule(normalizedQuery, r) >>

\* C11: of the four rule-based checks, taken in the order part number, category,
\* equipment, size, the first one that produces a result with confidence >= 0.7
\* determines the enhanced query, the suggestions and the confidence that
\* ruleBasedEnhancement returns; no later check overrides them.
FirstRuleDecides ==
  smart \notin {"idle", "rejected"} =>
    LET outs == RuleOutputs(originalQuery)
        Produced(o) == o.confidence >= 7
        i == FirstIndex([k \in 1..Len(outs) |-> Produced(outs[k])])
        returned == ruleBasedEnhancement(originalQuery)
    IN i > 0 => /\ returned.enhancedQuery = outs[i].enhancedQuery
                /\ returned.suggestions = outs[i].suggestions
                /\ returned.confidence = outs[i].confidence

\* C12: whenever the rule-based result has confidence >= 0.7, exactly 0.7
\* included, enhanceSearchQuery returns that result and no request is sent to the
\* LLM, with or without an API key.
RuleResultShortCircuits ==
  smart \notin {"idle", "rejected"} /\ ruleBasedEnhancement(originalQuery).confidence >= 7 =>
    /\ llmCalls = 0
    /\ smart # "llm"
    /\ Resolved => enhancement = ruleBasedEnhancement(originalQuery)

\* a query that is only a part-number-like token: 3 to 8 digits
IsPartNumberToken(query) ==
  /\ Len(query) \in 3..8
  /\ \A i \in 1..Len(query) : query[i] \in Digit

\* C13: for a query that is only a part-number-like token, enhanceSearchQuery
\* returns the token followed by " bearing", with confidence >= 0.7 and the
\* rule-based method, and sends no request to the LLM even with an API key.
PartNumberTokenEnhanced ==
  smart \notin {"idle", "rejected"} /\ IsPartNumberToken(originalQuery) =>
    /\ llmCalls = 0
    /\ Resolved
    /\ enhancement.enhancedQuery = originalQuery \o Text(" bearing")
    /\ enhancement.confidence >= 7
    /\ enhancement.method = "rule_based"

\* C13 witness: with an API key set, a search for a part-number token has
\* returned without any request to the LLM.
PartNumberTokenSearchedWithKey ==
  /\ smart = "returned"
  /\ apiKey
  /\ IsPartNumberToken(originalQuery)
  /\ enhancement.method = "rule_based"

\* C14: a failed LLM request (network error, timeout, non-2xx status, body
\* without choices/message) never leaves enhanceSearchQuery: it resolves with
\* the original query unchanged and the method error_fallback, and smartSearch
\* goes on to search with it.
LLMFailureDegrades ==
  /\ smart # "threw"
  /\ llmOutcome.kind \in LLMFailures =>
       /\ Resolved
       /\ enhancement.enhancedQuery = originalQuery
       /\ enhancement.method = "error_fallback"
       /\ calls # <<>> => calls[1].query = originalQuery

\* C14 witness: the LLM request failed and smartSearch has returned after
\* searching the original query.
LLMFailedSearchReturned ==
  /\ llmOutcome.kind \in LLMFailures
  /\ smart = "returned"
  /\ calls[1].query = originalQuery

\* C15: with no API key and no rule reaching the threshold, no request is sent
\* to the LLM and the enhancement returned has the original query, character for
\* character, as enhancedQuery, confidence 0.3 and method passthrough.
PassthroughUntouched ==
  /\ smart \notin {"idle", "rejected"}
  /\ ~apiKey
  /\ ruleBasedEnhancement(originalQuery).confidence < 7
  => /\ llmCalls = 0
     /\ Resolved
     /\ enhancement.enhancedQuery = originalQuery
     /\ enhancement.confidence = 3
     /\ enhancement.method = "passthrough"

\* C15 witness: a query with capitals and surrounding blanks went through the
\* passthrough and was searched as it is.
MixedCaseQueryPassedThrough ==
  /\ smart = "returned"
  /\ ~apiKey
  /\ originalQuery # trim(toLowerCase(originalQuery))
  /\ enhancement.method = "passthrough"
  /\ calls[1].query = originalQuery

\* C16: every enhancement enhanceSearchQuery returns has a confidence between 0
\* and 1 and one of the five methods.
EnhancementWellFormed ==
  Resolved =>
    /\ enhancement.confidence \in 0..10
    /\ enhancement.method \in {"rule_based", "llm", "llm_fallback", "passthrough",
                               "error_fallback"}

(***************************************************************************)
(* Properties of the listings a search returns                             *)
(***************************************************************************)
\* the canonical key: partNumber and name concatenated, lower-cased, whitespace
\* removed
CanonicalKey(item) ==
  StripSpaces(toLowerCase(Field(item, "partNumber") \o Field(item, "name")))

\* C17: the list a search returns holds at most one listing per canonical key:
\* two listings whose concatenated partNumber and name are equal after
\* lower-casing and whitespace removal, however the characters are split between
\* the two fields, are never both returned.
OneListingPerCanonicalKey ==
  search = "returned" =>
    \A i, j \in 1..Len(searchReturn) :
      i < j => CanonicalKey(searchReturn[i]) # CanonicalKey(searchReturn[j])

\* the listings of all sources in source-iteration order
InSourceOrder == out["mcmaster"] \o out["mscdirect"] \o out["grainger"]

\* the listings of list at the indices in S, in their order
Selected(list, S) ==
  [k \in 1..Cardinality(S) |->
     list[CHOOSE i \in S : Cardinality({j \in S : j <= i}) = k]]

\* the listings of list that no earlier listing shares its key with
FirstOccurrences(list) ==
  Selected(list, {i \in 1..Len(list) :
                    \A j \in 1..(i - 1) : DedupKey(list[j]) # DedupKey(list[i])})

ListingsCarryConfidence ==
  search = "returned" =>
    \A i \in 1..Len(searchReturn) :
      /\ "confidence" \in DOMAIN searchReturn[i]
      /\ searchReturn[i].confidence \in 0..10

\* parsePrice returned a number for the price text
ValidPrice(priceText) == ~graingerParsePrice(priceText).null

\* C20: the confidence of a normalized Grainger listing is
\* min(1.0, 0.5 + 0.3 if a valid price was parsed + 0.1 if the part number is
\* longer than 3 characters + 0.1 if a product URL is present), the 0.3 being
\* granted for every price text parsePrice returns a number for, 0 included.
ConfidenceFormula ==
  staticRes["grainger"] = "records" =>
    \A i \in 1..Len(out["grainger"]) :
      LET item == out["grainger"][i]
          sum == 5 + (IF ValidPrice(item.priceText) THEN 3 ELSE 0)
                   + (IF Len(item.partNumber) > 3 THEN 1 ELSE 0)
                   + (IF item.productUrl # <<>> THEN 1 ELSE 0)
      IN item.confidence = IF sum < 10 THEN sum ELSE 10

\* the name of a listing, or of a record returned as extracted
ListedName(item) ==
  IF "name" \in DOMAIN item THEN item.name ELSE Field(item, "productName")

\* C21: a record extracted from a container becomes a listing only if its
\* partNumber, name and priceText are all non-empty, on every source and on
\* both the static and the rendered path.
ListingsHaveAllThreeFields ==
  \A t \in Sources :
    \A i \in 1..Len(out[t]) :
      /\ Field(out[t][i], "partNumber") # <<>>
      /\ ListedName(out[t][i]) # <<>>
      /\ Field(out[t][i], "priceText") # <<>>

\* the candidate lists of a source's fields, and the empty list
CandidateLists(supplier) ==
  LET lists == IF supplier \in DOMAIN SUPPLIERS THEN SUPPLIERS[supplier].selectors
               ELSE selectors
  IN {lists[f] : f \in DOMAIN lists \ {"productContainer"}} \cup {<<>>}

\* every container of a document
ContainersOf(document) ==
  UNION {{document[s][k] : k \in 1..Len(document[s])} : s \in DOMAIN document}

\* the trimmed text of the first candidate, in list order, whose match has
\* non-empty trimmed text; the empty string if there is none
FirstNonEmptyText(container, candidates) ==
  LET texts == [k \in 1..Len(candidates) |-> trim(textOf(container, candidates[k]))]
      k == FirstIndex([i \in 1..Len(candidates) |-> texts[i] # <<>>])
  IN IF k = 0 THEN <<>> ELSE texts[k]

\* the field extraction agrees with FirstNonEmptyText on every container of
\* the document and every candidate list of the source
ExtractsFirstNonEmptyText ==
  [t \in Sources |->
     [d \in DocumentNames |->
        \A container \in ContainersOf(Documents(t)[d]) :
          \A candidates \in CandidateLists(t) :
            getTextBySelectors(container, candidates)
              = FirstNonEmptyText(container, candidates)]]

\* C22: field extraction tries the selector candidates in list order and
\* returns the trimmed text of the first candidate whose match has non-empty
\* trimmed text, skipping candidates with empty or whitespace-only text, and
\* the empty string when no candidate (or an empty list) produces text.
FieldExtractionFirstNonEmpty ==
  \A t \in Sources :
    /\ html[t] # "none" => ExtractsFirstNonEmptyText[t][html[t]]
    /\ dom[t] # "none" => ExtractsFirstNonEmptyText[t][dom[t]]

\* C22 witness: mcmaster's static fetch read a container whose first part
\* number candidate holds only white space, whose second holds "C2" and whose
\* third holds other text; the listing carries "C2".
WhitespaceCandidateSkipped ==
  /\ html["mcmaster"] = "first" /\ staticRes["mcmaster"] = "records"
  /\ \E container \in ContainersOf(Documents("mcmaster")["first"]) :
       /\ ".PartNumber" \in DOMAIN container
       /\ container[".PartNumber"] # <<>> /\ trim(container[".PartNumber"]) = <<>>
       /\ textOf(container, ".part-number") = Text("C2")
       /\ textOf(container, "td:first-child") # <<>>
  /\ \E i \in 1..Len(out["mcmaster"]) : out["mcmaster"][i].partNumber = Text("C2")

\* the containers of the first container selector candidate, in list order,
\* that matches in the document
FirstMatchContainers(t, d) ==
  LET candidates == ContainerSelectors(t)
      matching == {k \in 1..Len(candidates) : candidates[k] \in DOMAIN Documents(t)[d]}
  IN IF matching = {} THEN <<>>
     ELSE Documents(t)[d][candidates[CHOOSE k \in matching : \A j \in matching : k <= j]]

\* the part numbers of the records these containers hold, for every document
FirstMatchPartNumbers ==
  [t \in Sources |->
     [d \in DocumentNames |->
        {getTextBySelectors(FirstMatchContainers(t, d)[k],
                            IF t \in Products THEN SUPPLIERS[t].selectors.partNumber
                            ELSE selectors.partNumber) :
           k \in 1..Len(FirstMatchContainers(t, d))}]]

\* C23: on both fetch paths the records are extracted from the containers of
\* the first container selector candidate that yields a match; in the rendered
\* fetch, when the first candidate never appears but a later one does, the
\* records come from that later candidate's containers.
ContainersOfFirstMatch ==
  \A t \in Sources :
    /\ staticRes[t] \in {"records", "empty"} /\ html[t] # "none" =>
         \A i \in 1..Len(out[t]) : ~rendered[t] =>
           out[t][i].partNumber \in FirstMatchPartNumbers[t][html[t]]
    /\ rendered[t] /\ pc[t] = "done" /\ err[t] = "none" =>
         /\ \A i \in 1..Len(out[t]) :
              out[t][i].partNumber \in FirstMatchPartNumbers[t][dom[t]]
         /\ FirstMatchPartNumbers[t][dom[t]] # {} => out[t] # <<>>

\* SCRAPING_CONFIG.maxRetries
maxRetries == 2

\* C24: in the rendered fetch a failed navigation is retried up to 2 times (3
\* navigation attempts in all); the navigation error is raised only after the
\* last retry failed, and a navigation that succeeded is not attempted again.
NavigationRetriedTwice ==
  \A t \in Sources :
    /\ gotos[t] <= maxRetries + 1
    /\ err[t] = "navigation" => gotos[t] = maxRetries + 1

\* the six phrases that classify a listing unavailable
DenyList ==
  {Text("out of stock"), Text("discontinued"), Text("unavailable"),
   Text("backordered"), Text("special order"), Text("not available")}

\* the availability texts of the pages, the default text and the absent text
AvailabilityTexts ==
  {<<>>, Text("Contact supplier")}
    \cup UNION {{textOf(c, s) : s \in {selectors.availability[k] :
                                        k \in 1..Len(selectors.availability)}} :
                 c \in UNION {ContainersOf(Documents(t)[d]) :
                                t \in Sources, d \in DocumentNames}}

\* the classification of every availability text: available unless the text
\* contains, case-insensitively, a phrase of the deny-list
Available ==
  [text \in {trim(a) : a \in AvailabilityTexts} |->
     \A phrase \in DenyList : ~includes(toLowerCase(text), phrase)]

\* C25: in the listings of every source, empty or absent availability text is
\* classified available, text containing one of the six deny-list phrases in
\* any case is classified unavailable, every other text is classified available.
AvailabilityClassified ==
  search = "returned" =>
    \A i \in 1..Len(searchReturn) :
      /\ "inStock" \in DOMAIN searchReturn[i]
      /\ searchReturn[i].inStock = Available[searchReturn[i].availability]

\* parseFloat of the amount a pattern matched, when the pattern matches
AmountOf(m, text, k) == IF m.found THEN Number(parseFloat(Capture(m, text, k))) ELSE Null

\* the price forms of the specification, in order: a currency sign before the
\* amount, a currency word after it, a price label before it
PriceAsSpecified(text) ==
  LET lower == toLowerCase(text)
      prefixed == Match(<<Set({"$"}, 1, 1), Grp(AmountPattern, 1, 1)>>, text)
      suffixed == Match(<<Grp(AmountPattern, 1, 1), Set(Space, 0, 0),
                          Alt(<<Lit(Text("usd")), Lit(Text("dollars")),
                                Lit(Text("dollar"))>>)>>, lower)
      labeled  == Match(Lit(Text("price:")) \o
                          <<Set(Space, 0, 0), Set({"$"}, 0, 1),
                            Grp(AmountPattern, 1, 1)>>, lower)
  IN IF prefixed.found THEN AmountOf(prefixed, text, 2)
     ELSE IF suffixed.found THEN AmountOf(suffixed, text, 1)
     ELSE IF labeled.found THEN AmountOf(labeled, text, 9)
     ELSE Null

\* the price texts of the pages
PriceTexts ==
  UNION {{ProductRecord(c, SUPPLIERS[t]).priceText :
            c \in ContainersOf(Documents(t)[d])} : t \in Products, d \in DocumentNames}
    \cup UNION {{GraingerRecord(c).priceText :
                   c \in ContainersOf(Documents("grainger")[d])} : d \in DocumentNames}

\* the specified price of every price text of the pages
SpecifiedPrice == [text \in PriceTexts |-> PriceAsSpecified(text)]

\* C26: in the listings of every source the price is parsed by trying the
\* prefixed, the suffixed-word and the labeled form in order; a text matching
\* none of them, digits without a currency sign, word or label included, gives
\* a null price.
PricesParsedAsSpecified ==
  search = "returned" =>
    \A i \in 1..Len(searchReturn) :
      /\ "price" \in DOMAIN searchReturn[i]
      /\ searchReturn[i].price = SpecifiedPrice[searchReturn[i].priceText]

\* C27: searchSingleQuery returns at most maxResults listings, and the list it
\* returns is the first maxResults entries of the deduplicated merge: the
\* truncation comes after the deduplication.
TruncatedAfterDeduplication ==
  search = "returned" =>
    LET unique == FirstOccurrences(combinedResults) IN
      /\ Len(searchReturn) <= maxResults
      /\ Len(searchReturn) = IF Len(unique) < maxResults THEN Len(unique) ELSE maxResults
      /\ \A i \in 1..Len(searchReturn) : searchReturn[i] = unique[i]

\* C27 witness: with maxResults = 2 the merge starts with two listings of one
\* key and holds more than two keys; two listings of different keys are returned.
DuplicateAmongFirstEntries ==
  /\ search = "returned" /\ maxResults = 2
  /\ Len(combinedResults) > 2
  /\ DedupKey(combinedResults[1]) = DedupKey(combinedResults[2])
  /\ Len(FirstOccurrences(combinedResults)) > 2
  /\ Len(searchReturn) = 2
  /\ DedupKey(searchReturn[1]) # DedupKey(searchReturn[2])

\* C28: when every stage of the cascade yields no listing, every source having
\* failed included, smartSearch does not throw: it returns normally with empty
\* results and reports the original query.
EmptyCascadeReturnsNormally ==
  /\ (\E i \in 1..Len(calls) : calls[i].completed /\ calls[i].results = <<>>) =>
       smart # "threw"
  /\ (smart = "returned" /\ \A i \in 1..Len(calls) : calls[i].results = <<>>) =>
       /\ smartReturn.results = <<>>
       /\ smartReturn.query = originalQuery
       /\ smartReturn.originalQuery = originalQuery
       /\ smartReturn.method = "original"
       /\ calls[Len(calls)].stage = "original"

\* C28 witness: the enhanced query, two suggestions and the original query
\* were searched, every source failed each time, and smartSearch returned.
EverySourceFailedAtEveryStage ==
  /\ smart = "returned"
  /\ Len(calls) = 4
  /\ \A i \in 1..Len(calls) : calls[i].failed /\ calls[i].completed
  /\ smartReturn.results = <<>>
  /\ smartReturn.query = originalQuery

\* the query has fewer than 2 characters once its surrounding white space is
\* removed
TooShort(query) == Len(TrimEnd(TrimStart(query))) < 2

\* C29: a query that is missing or shorter than 2 characters after trimming is
\* rejected before any work: the search entry point answers with an error
\* without calling the enhancer, the LLM or any source, and getLivePrices
\* raises without issuing a static or a rendered fetch.
ShortQueryRejectedBeforeWork ==
  /\ (request.kind = "missing" \/ (request.kind = "given" /\ TooShort(request.q))) =>
       /\ smart = "rejected"
       /\ enhancement = [method |-> "none"]
       /\ llmCalls = 0
       /\ calls = <<>>
  /\ \A i \in 1..Len(calls) : TooShort(calls[i].query) => ~calls[i].graingerFetch
  /\ (search # "idle" /\ ~queryOk) =>
       /\ err["grainger"] = "query"
       /\ staticRes["grainger"] = "pending" /\ html["grainger"] = "none"
       /\ ~rendered["grainger"] /\ gotos["grainger"] = 0

\* C29 witness: the route accepted a query, the LLM answered with an enhanced
\* query of one character between spaces, and getLivePrices threw on it
\* without a fetch while the search went on to the original query.
ShortEnhancedQueryNotFetched ==
  /\ request.kind = "given" /\ ~TooShort(request.q)
  /\ smart = "returned"
  /\ calls[1].query = Text(" 6 ") /\ ~calls[1].graingerFetch
  /\ calls[Len(calls)].stage = "original" /\ calls[Len(calls)].graingerFetch

\* C30: the static fetch returns an empty list without raising when the page
\* holds no record and raises on a transport failure, for every source: a
\* transport failure is never reported as an empty result that then triggers
\* the rendered fetch.
TransportFailureRaised ==
  \A t \in Sources :
    /\ (staticRes[t] # "pending" /\ html[t] = "none") =>
         staticRes[t] = "threw" /\ ~rendered[t]
    /\ (staticRes[t] # "pending" /\ html[t] = "empty") =>
         staticRes[t] = "empty" /\ rendered[t]

\* C31: the fan-out of one query attempt is joined at an all-complete barrier:
\* when searchSingleQuery has returned, the task of every source, its rendered
\* fallback included, has completed or failed, and none is at an await of a
\* static or a rendered fetch, even when another source failed early.
JoinedAtAllCompleteBarrier ==
  search = "returned" =>
    \A t \in Sources : pc[t] = "done" /\ pc[t] \notin RenderedPcs \cup {"axios"}

\* C31 witness: the price source failed at once on its query, a product source
\* went on through its static fetch and its rendered fallback to listings, and
\* the search returned after both.
ReturnedAfterEarlyFailureAndFallback ==
  /\ search = "returned"
  /\ err["grainger"] = "query" /\ gotos["grainger"] = 0
  /\ \E t \in Sources : rendered[t] /\ dom[t] # "none" /\ out[t] # <<>>

RECURSIVE IsSubsequence(_, _)
IsSubsequence(sub, list) ==
  IF sub = <<>> THEN TRUE
  ELSE IF list = <<>> THEN FALSE
  ELSE IF Head(sub) = Head(list) THEN IsSubsequence(Tail(sub), Tail(list))
  ELSE IsSubsequence(sub, Tail(list))

\* C34: removeDuplicates is idempotent and only removes: for every list of
\* listings the sources can deliver, its output is a subsequence of the input
\* (no listing added, altered or reordered), and applying removeDuplicates to
\* its own output returns that output unchanged.
RemoveDuplicatesOnlyRemovesAndIsIdempotent ==
  LET output == removeDuplicates(Flat)
  IN /\ IsSubsequence(output, Flat)
     /\ removeDuplicates(output) = output
     /\ search = "returned" => IsSubsequence(searchReturn, combinedResults)

\* C34 witness: a search combined listings of which removeDuplicates removed
\* some and kept at least three, of two sources.
DuplicatesRemovedOthersKept ==
  /\ search = "returned" /\ combinedResults = Flat
  /\ Len(removeDuplicates(combinedResults)) < Len(combinedResults)
  /\ Len(removeDuplicates(combinedResults)) >= 3
  /\ \E i, j \in 1..Len(removeDuplicates(combinedResults)) :
       removeDuplicates(combinedResults)[i].supplier # removeDuplicates(combinedResults)[j].supplier

\* C33: every smartSearch call eventually completes, provided every external
\* call eventually returns or times out: the enhancement step and each stage
\* of the cascade take a bounded number of steps, and the call returns.
SmartSearchCompletes ==
  (smart \in {"llm", "enhancing", "searching"}) ~> (smart = "returned")

\* C33 witness: a call that took the longest way has returned: the LLM was
\* asked, and the enhanced query, two suggestions and the original query were
\* searched, each search without a listing.
LongestCascadeReturned ==
  /\ smart = "returned"
  /\ llmCalls = 1
  /\ Len(calls) = 4
  /\ \A i \in 1..4 : calls[i].completed /\ calls[i].results = <<>>

\* A step of source t's task: the external call it awaits returns or times out
TaskStep(t) ==
  IF t \in Products
    THEN AxiosDone(t) \/ LaunchDone(t) \/ NewPageDone(t) \/ PageDone(t) \/ CloseDone(t)
    ELSE \/ GraingerAxiosDone
         \/ GraingerLaunchDone
         \/ GraingerNewPageDone
         \/ GraingerGotoDone
         \/ GraingerBackoffDone
         \/ GraingerPageDone
         \/ GraingerCloseDone

\* A step of one search: a step of one of its tasks, or the join
SearchStep == (\E t \in Sources : TaskStep(t)) \/ Join

\* the number of steps source t's task can still take, at most
StepsLeft(t) ==
  CASE pc[t] = "idle" -> 9
    [] pc[t] = "axios" -> 8
    [] pc[t] = "launching" -> 7
    [] pc[t] = "newPage" -> 6
    [] pc[t] = "backoff" -> 2 * retries + 2
    [] pc[t] = "goto" -> 2 * retries + 1
    [] pc[t] \in {"navigating", "waiting"} -> 2
    [] pc[t] = "closing" -> 1
    [] OTHER -> 0

\* the number of steps one search can still take, at most
SearchStepsLeft ==
  StepsLeft("mcmaster") + StepsLeft("mscdirect") + StepsLeft("grainger")
    + (IF search = "returned" THEN 0 ELSE 1)

\* C33, for the search of one stage: every step of a search (static fetch,
\* rendered fallback, navigation retry, join) lowers the number of steps the
\* search can still take, which starts at 25 at most.
SearchStepsBounded == [][SearchStep => SearchStepsLeft' < SearchStepsLeft]_vars

\* C33, for the search of one stage: while a search runs, every task that has
\* not settled has a step to take whatever the session counter and the other
\* requests' sessions are, and the join can settle once every task has.
SearchNeverWaits ==
  search = "running" =>
    /\ \A t \in Sources : pc[t] # "done" => ENABLED TaskStep(t)
    /\ (\A t \in Sources : pc[t] = "done") => ENABLED Join

====
